---- MODULE Spec2Model ----
(***************************************************************************)
(* Model of apx-image-builder.                                             *)
(*  - The stage orchestration engine: main() of apx_image_builder/main.py  *)
(*    (stage table, selector resolution, sequencer, check phase, run       *)
(*    phase) and Stage of builders/base.py.  A qualified stage             *)
(*    "builder:stage" is modelled as the pair <<builder, stage>> that      *)
(*    x.split(':', 1) turns it into.                                       *)
(*  - import_source of builders/base.py and the files it reads and writes. *)
(*  - JSONStateFile of builders/base.py and its file on disk.              *)
(*  - Patcher of builders/base.py and its cache directory.                 *)
(*  - BypassableStage of builders/base.py and a builder's bypass bundle.   *)
(*  - The prepare stages of the builders (uboot.py, rootfs.py, fsbl.py,    *)
(*    dtb.py, kernel.py, pmu.py) and the workspace they keep.              *)
(***************************************************************************)
EXTENDS Integers, Sequences, FiniteSets, TLC

VARIABLES
    pc,                    \* position of main()
    ctor,                  \* the arguments each Stage was constructed with
    STAGES,                \* <<builder, stage>> -> Stage object
    valid_stages,          \* selectors accepted on the command line
    ARGS_stages,           \* ARGS.stages
    stageset,              \* <<builder, stage>> -> StageInfo (resolved sets)
    requested_stages,      \* work queue of the requires closure
    required_stages_set,   \* the closure so far
    required_stages,       \* working list of the sequencing loop
    sequenced_stages,      \* the sequence built so far
    conditions_failed_for, \* failures collected by check_conditions
    checked,               \* <<stage, result>> of every check() invoked, in order
    started,               \* stages whose run() was invoked, in order
    completed,             \* stages whose run() returned normally, in order
    report,                \* what the process reported when it failed
    exit_code,             \* -1 while running, then the process exit status
    \* import_source (builders/base.py)
    fs,                    \* path -> the file at that path, or NoFile
    clock,                 \* the time of the file system
    ipc,                   \* position of the import_source call
    call,                  \* the arguments of the import_source call
    changed_at,            \* the test of import_source that set `changed`
    returned,              \* what the import_source call returned or raised
    pre,                   \* the files when the call began
    last,                  \* the previous call: arguments, files, result
    \* JSONStateFile (builders/base.py)
    jfiles,                \* the state file and its temporary file
    objs,                  \* the JSONStateFile objects of the process
    jpc,                   \* position of the process in JSONStateFile code
    with_obj,              \* the object whose `with` block or save is running
    jraised,               \* the exception that left the last operation
    tx,                    \* the last `with` block: its last assignment, its save
    jlast,                 \* the last operation completed
    \* Patcher (builders/base.py)
    psrc,                  \* patch reference -> the patch file of the user
    cache,                 \* file name -> the file of that name in cache_dir
    patcher,               \* the Patcher object: sequence_number, patchset
    ppc,                   \* position of the stage that uses the Patcher
    plast,                 \* the last import_patches call on this cache_dir
    tree,                  \* the exit statuses of `patch` in the last apply
    \* BypassableStage (builders/base.py)
    bundle,                \* user sources: bypass.<builder>.tbz2
    aside,                 \* the same name in another sources directory
    bcopy,                 \* build workspace: .bypass.tbz2
    canary,                \* output directory: .bypassed
    outdir,                \* what else the output directory holds
    workspace,             \* what else the build workspace holds
    blast,                 \* the last check() or run() of a stage
    \* the builders' prepare stages (builders/*.py)
    bld,                   \* the builder the workspace belongs to
    usr,                   \* user sources: patch list, configuration, system.xsa
    bdisk,                 \* the build workspace of the builder
    statefile,             \* self.statefile of the builder, kept in memory
    bout,                  \* the configuration in the output directory
    distcleaned,           \* distclean ran in this process
    prun                   \* the last run of prepare

mainVars == <<pc, ctor, STAGES, valid_stages, ARGS_stages, stageset,
              requested_stages, required_stages_set, required_stages,
              sequenced_stages, conditions_failed_for, checked, started,
              completed, report, exit_code>>

importVars == <<fs, clock, ipc, call, changed_at, returned, pre, last>>

stateVars == <<jfiles, objs, jpc, with_obj, jraised, tx, jlast>>

patchVars == <<psrc, cache, patcher, ppc, plast, tree>>

bypassVars == <<bundle, aside, bcopy, canary, outdir, workspace, blast>>

prepVars == <<bld, usr, bdisk, statefile, bout, distcleaned, prun>>

\* the state of the helpers of builders/base.py and of the builders, which
\* main() does not touch
libVars == <<importVars, stateVars, patchVars, bypassVars, prepVars>>

\* what import_source leaves alone, what JSONStateFile leaves alone, what
\* Patcher leaves alone and what a stage of a bypassable builder leaves alone
otherThanImport == <<mainVars, stateVars, patchVars, bypassVars, prepVars>>
otherThanState == <<mainVars, importVars, patchVars, bypassVars, prepVars>>
otherThanPatch == <<mainVars, importVars, stateVars, bypassVars, prepVars>>
otherThanBypass == <<mainVars, fs, ipc, call, changed_at, returned, pre, last,
                     stateVars, patchVars, prepVars>>
otherThanPrep == <<mainVars, importVars, stateVars, patchVars, bypassVars>>

vars == <<mainVars, libVars>>

----------------------------------------------------------------------------
(* Bounds of the model *)

\* most after/before/requires references declared over the whole graph
MaxDecls == 2
\* most selectors on the command line
MaxRequested == 1
\* cap on the length of the sequencer's working list (it grows without limit
\* on a cyclic `after` relation)
MaxWork == 9

----------------------------------------------------------------------------
(* Universe of builders, stages and selectors *)

ALL == "ALL"

\* builders in registration order
all_builders == <<"kernel", "qspi">>

\* stage names of a builder in declaration order
stage_names == <<"clean", "build">>

Range(s) == {s[i] : i \in DOMAIN s}

\* the stages KernelBuilder.instantiate_stages declares, in declaration order
kernel_stage_names ==
    <<"distclean", "clean", "fetch", "prepare", "defconfig", "oldconfig",
      "menuconfig", "olddefconfig", "build">>

\* every stage that can be declared, in the natural (declaration) order
NaturalOrder ==
    [i \in 1..Len(kernel_stage_names) |-> <<"kernel", kernel_stage_names[i]>>]
    \o <<<<"qspi", "clean">>, <<"qspi", "build">>>>

\* the stages of the graphs with freely chosen declarations
Keys == Range(all_builders) \X Range(stage_names)

Selectors == (Range(all_builders) \cup {ALL}) \X (Range(stage_names) \cup {ALL})

Index(k) == CHOOSE i \in DOMAIN NaturalOrder : NaturalOrder[i] = k

\* the members of S in natural order
InNaturalOrder(S) == SelectSeq(NaturalOrder, LAMBDA k : k \in S)

RECURSIVE Orders(_)
\* every order in which a set can be iterated
Orders(S) ==
    IF S = {} THEN {<<>>}
    ELSE UNION {{<<x>> \o t : t \in Orders(S \ {x})} : x \in S}

RECURSIVE SubsetsUpTo(_, _)
\* the subsets of S with at most n elements
SubsetsUpTo(S, n) ==
    IF n = 0 THEN {{}}
    ELSE LET smaller == SubsetsUpTo(S, n - 1)
         IN  smaller \cup {T \cup {x} : T \in smaller, x \in S}

Reverse(s) == [i \in 1..Len(s) |-> s[Len(s) + 1 - i]]

----------------------------------------------------------------------------
(* Stage (builders/base.py) *)

\* Stage.__init__ without the default of `after`
Stage_NoDefault(has_check, requires, after_given, after, before, include_in_all) ==
    [has_check      |-> has_check,
     requires       |-> requires,
     after          |-> after,
     before         |-> before,
     include_in_all |-> include_in_all]

\* Stage.__init__: `after` defaults to the contents of `requires`
Stage(has_check, requires, after_given, after, before, include_in_all) ==
    [has_check      |-> has_check,
     requires       |-> requires,
     after          |-> IF after_given THEN after ELSE requires,
     before         |-> before,
     include_in_all |-> include_in_all]

\* Stage.check: a stage without a check function is always eligible
Stage_check(stage, result) ==
    IF ~stage.has_check THEN "true" ELSE result

\* a declaration: one reference in a stage's requires/after/before list, or
\* the fact that `after` was passed explicitly
Decls ==
    [stage : Keys, kind : {"requires", "after", "before"}, sel : Selectors]
    \cup [stage : Keys, kind : {"after_given"}, sel : {<<ALL, ALL>>}]

\* the constructor arguments of stage k under the declarations D; as in
\* BaseBuilder.instantiate_stages, clean is not part of ALL and has no check
CtorArgs(k, D) ==
    [has_check      |-> k[2] # "clean",
     requires       |-> {d.sel : d \in {e \in D : e.stage = k /\ e.kind = "requires"}},
     after_given    |-> \E d \in D : d.stage = k /\ d.kind \in {"after", "after_given"},
     after          |-> {d.sel : d \in {e \in D : e.stage = k /\ e.kind = "after"}},
     before         |-> {d.sel : d \in {e \in D : e.stage = k /\ e.kind = "before"}},
     include_in_all |-> k[2] # "clean"]

----------------------------------------------------------------------------
(* import_source (builders/base.py 315-429) and the files it works on *)

\* latest time of the file system clock
MaxClock == 2

\* the source of the call, the target, the download cache file of the URL
\* and the file wget writes to
Paths == {"source", "target", "cachefile", "cachefile~"}

NoFile == [exists |-> FALSE, content |-> "", mtime |-> 0, ctime |-> 0]

\* a file written or changed at the current time
NewFile(content) ==
    [exists |-> TRUE, content |-> content, mtime |-> clock, ctime |-> clock]

\* what a user source can hold: "a" and "b" have the same size
Contents == {"a", "b", "cc"}

\* what the URL serves, and what a download that stops early leaves
RemoteContent == "cc"
PartialContents == {"", "c"}

\* os.stat(...).st_size
st_size(file) ==
    CASE file.content = "" -> 0
      [] file.content \in {"a", "b", "c"} -> 1
      [] file.content = "cc" -> 2

\* base.py 269-275 with a digest that only depends on the length of the file
hash_file_Size(algo, file) == <<algo, st_size(file)>>

\* base.py 269-275: the digest stands for the content it was computed from
hash_file(algo, file) == <<algo, file.content>>

\* base.py 337 with wget writing to the cache file itself
download_path_Final == "cachefile"

\* base.py 343: wget writes to the cache file's name followed by '~'
download_path == "cachefile~"

\* base.py 331-386: the file the call imports
source_path == IF call.scheme = "https" THEN "cachefile" ELSE "source"

\* base.py 398-419 without the hash check
detect_change_NoHash(sts, stt, ignore_timestamps) ==
    IF ~stt.exists THEN "target.exists"
    ELSE IF /\ ~ignore_timestamps
            /\ \/ stt.mtime < sts.mtime
               \/ stt.ctime < sts.ctime
               \/ st_size(stt) # st_size(sts)
    THEN "timestamp"
    ELSE "unchanged"

\* base.py 398-419 with a target as old as the source taken as older
detect_change_NotNewer(sts, stt, ignore_timestamps) ==
    IF ~stt.exists THEN "target.exists"
    ELSE IF /\ ~ignore_timestamps
            /\ \/ stt.mtime <= sts.mtime
               \/ stt.ctime <= sts.ctime
               \/ st_size(stt) # st_size(sts)
    THEN "timestamp"
    ELSE IF hash_file("sha256", sts) # hash_file("sha256", stt) THEN "hash"
    ELSE "unchanged"

\* base.py 398-419: the test that sets `changed`, or "unchanged"
detect_change(sts, stt, ignore_timestamps) ==
    IF ~stt.exists THEN "target.exists"
    ELSE IF /\ ~ignore_timestamps
            /\ \/ stt.mtime < sts.mtime
               \/ stt.ctime < sts.ctime
               \/ st_size(stt) # st_size(sts)
    THEN "timestamp"
    ELSE IF hash_file("sha256", sts) # hash_file("sha256", stt) THEN "hash"
    ELSE "unchanged"

\* base.py 394-396 with the stale target left in place
import_missing_KeepTarget(files) ==
    [files |-> files,
     result |-> IF files["target"].exists THEN "true" ELSE "false"]

\* base.py 394-396: an optional source that is missing
import_missing(files) ==
    [files |-> [files EXCEPT !["target"] = NoFile],
     result |-> IF files["target"].exists THEN "true" ELSE "false"]

NoCall == [scheme |-> "none", ignore_timestamps |-> FALSE, optional |-> FALSE]

NoLast == [call |-> NoCall, result |-> "none", pre |-> [p \in Paths |-> NoFile],
           fs |-> [p \in Paths |-> NoFile]]

ImportInit ==
    /\ fs = [p \in Paths |-> NoFile]
    /\ clock = 0
    /\ ipc = "idle"
    /\ call = NoCall
    /\ changed_at = "none"
    /\ returned = "none"
    /\ pre = [p \in Paths |-> NoFile]
    /\ last = NoLast

\* time passes
Tick ==
    /\ ipc = "idle"
    /\ clock < MaxClock
    /\ clock' = clock + 1
    /\ UNCHANGED <<fs, ipc, call, changed_at, returned, pre, last>>
    /\ UNCHANGED otherThanImport

\* the user writes the source file
WriteSource ==
    /\ ipc = "idle"
    /\ \E content \in Contents : fs' = [fs EXCEPT !["source"] = NewFile(content)]
    /\ UNCHANGED <<clock, ipc, call, changed_at, returned, pre, last>>
    /\ UNCHANGED otherThanImport

\* the user changes the mode or owner of the source file
ChmodSource ==
    /\ ipc = "idle"
    /\ fs["source"].exists
    /\ fs' = [fs EXCEPT !["source"].ctime = clock]
    /\ UNCHANGED <<clock, ipc, call, changed_at, returned, pre, last>>
    /\ UNCHANGED otherThanImport

\* the user removes the source file
UnlinkSource ==
    /\ ipc = "idle"
    /\ fs["source"].exists
    /\ fs' = [fs EXCEPT !["source"] = NoFile]
    /\ UNCHANGED <<clock, ipc, call, changed_at, returned, pre, last>>
    /\ UNCHANGED otherThanImport

\* a build step rewrites the imported file in the build workspace
WriteTarget ==
    /\ ipc = "idle"
    /\ fs["target"].exists
    /\ \E content \in Contents : fs' = [fs EXCEPT !["target"] = NewFile(content)]
    /\ UNCHANGED <<clock, ipc, call, changed_at, returned, pre, last>>
    /\ UNCHANGED otherThanImport

\* base.py 165-172: distclean empties the build workspace
Distclean ==
    /\ ipc = "idle"
    /\ fs' = [p \in Paths |-> IF p = "source" THEN fs[p] ELSE NoFile]
    /\ UNCHANGED <<clock, ipc, call, changed_at, returned, pre, last>>
    /\ UNCHANGED otherThanImport

\* base.py 324-357: import_source is called with a source of one of
\* `schemes`; a remote source without a cache file starts wget
import_begin(schemes) ==
    /\ ipc = "idle"
    /\ \E scheme \in schemes, ignore_timestamps \in BOOLEAN, optional \in BOOLEAN :
          /\ call' = [scheme |-> scheme,
                      ignore_timestamps |-> ignore_timestamps,
                      optional |-> optional]
          /\ ipc' = IF scheme = "https" /\ ~fs["cachefile"].exists
                    THEN "wget" ELSE "locate"
    /\ pre' = fs
    /\ changed_at' = "none"
    /\ returned' = "none"
    /\ UNCHANGED <<fs, clock, last>>
    /\ UNCHANGED otherThanImport

\* import_source of a file of the user sources directory
ImportLocal == import_begin({"file"})

\* import_source of a http, https or ftp URL
ImportRemote == import_begin({"https"})

\* base.py 341-347: wget creates its output file and writes what it received
WgetOutput ==
    /\ ipc = "wget"
    /\ \E content \in PartialContents :
          fs' = [fs EXCEPT ![download_path] = NewFile(content)]
    /\ UNCHANGED <<clock, ipc, call, changed_at, returned, pre, last>>
    /\ UNCHANGED otherThanImport

\* base.py 341-354: run() returns after a complete download and the file is
\* renamed to the cache file, or run() raises and the call fails
WgetExit ==
    /\ ipc = "wget"
    /\ \/ /\ fs' = [fs EXCEPT ![download_path] = NoFile,
                               !["cachefile"] = NewFile(RemoteContent)]
          /\ ipc' = "locate"
          /\ UNCHANGED returned
       \/ /\ fs' = [fs EXCEPT !["cachefile"] = NoFile]
          /\ ipc' = "done"
          /\ returned' = "StepFailedError"
    /\ UNCHANGED <<clock, call, changed_at, pre, last>>
    /\ UNCHANGED otherThanImport

\* base.py 341-348: the download is interrupted (KeyboardInterrupt is not an
\* Exception, the handler does not run)
WgetInterrupted ==
    /\ ipc = "wget"
    /\ ipc' = "done"
    /\ returned' = "KeyboardInterrupt"
    /\ UNCHANGED <<fs, clock, call, changed_at, pre, last>>
    /\ UNCHANGED otherThanImport

\* base.py 386-429: locate the source, detect a change, copy
ImportLocate ==
    /\ ipc = "locate"
    /\ LET sts == fs[source_path]
           stt == fs["target"]
       IN  IF ~sts.exists
           THEN IF ~call.optional
                THEN /\ returned' = "StepFailedError"
                     /\ UNCHANGED <<fs, changed_at>>
                ELSE /\ fs' = import_missing(fs).files
                     /\ returned' = import_missing(fs).result
                     /\ UNCHANGED changed_at
           ELSE LET changed == detect_change(sts, stt, call.ignore_timestamps)
                IN  /\ changed_at' = changed
                    /\ IF changed = "unchanged"
                       THEN /\ returned' = "false"
                            /\ UNCHANGED fs
                       ELSE /\ fs' = [fs EXCEPT !["target"] = NewFile(sts.content)]
                            /\ returned' = "true"
    /\ ipc' = "done"
    /\ UNCHANGED <<clock, call, pre, last>>
    /\ UNCHANGED otherThanImport

\* the caller goes on (or a later run of the program starts) with the files
\* the call left
ImportReturn ==
    /\ ipc = "done"
    /\ ipc' = "idle"
    /\ last' = [call |-> call, result |-> returned, pre |-> pre, fs |-> fs]
    /\ UNCHANGED <<fs, clock, call, changed_at, returned, pre>>
    /\ UNCHANGED otherThanImport

----------------------------------------------------------------------------
(* JSONStateFile (builders/base.py 278-302) *)

\* the JSONStateFile objects a process creates on one path
Objects == {"o1", "o2"}

\* keys the builders store (kernel.py, rootfs.py)
StateKeys == {"tree_ready", "user_config_hash"}

\* Python values the builders store: flags, None and digests
PyValues ==
    {<<"bool", "True">>, <<"bool", "False">>, <<"NoneType", "None">>,
     <<"str", "0a1b">>}

EmptyMap == <<>>

\* state[k] = v on a dict
dict_set(map, k, v) ==
    [key \in DOMAIN map \cup {k} |-> IF key = k THEN v ELSE map[key]]

\* json.dump with str() in place of the JSON encoding of a value
json_encode_Str(value) == <<"string", value[2]>>

\* json.dump of one value: a JSON literal or a JSON string
json_encode(value) ==
    CASE value = <<"bool", "True">> -> <<"literal", "true">>
      [] value = <<"bool", "False">> -> <<"literal", "false">>
      [] value = <<"NoneType", "None">> -> <<"literal", "null">>
      [] value[1] = "str" -> <<"string", value[2]>>

\* json.load of one value
json_decode(token) ==
    CASE token = <<"literal", "true">> -> <<"bool", "True">>
      [] token = <<"literal", "false">> -> <<"bool", "False">>
      [] token = <<"literal", "null">> -> <<"NoneType", "None">>
      [] token[1] = "string" -> <<"str", token[2]>>

\* base.py 294: json.dump(self.state, fd), a JSON object
json_dump(map) == [key \in DOMAIN map |-> json_encode(map[key])]

\* base.py 287: json.load of a complete JSON object
json_load(object) == [key \in DOMAIN object |-> json_decode(object[key])]

NoJFile == [exists |-> FALSE, complete |-> FALSE, object |-> EmptyMap]

NoObject == [created |-> FALSE, state |-> EmptyMap]

NoTx == [set |-> FALSE, k |-> "", v |-> <<"NoneType", "None">>,
         saved |-> FALSE, map |-> EmptyMap]

StateInit ==
    /\ jfiles = [p \in {"path", "path~"} |-> NoJFile]
    /\ objs = [o \in Objects |-> NoObject]
    /\ jpc = "idle"
    /\ with_obj = "none"
    /\ jraised = "none"
    /\ tx = NoTx
    /\ jlast = [op |-> "none", obj |-> "none"]

\* base.py 281-289: JSONStateFile(path) loads the file, or starts empty
JSONStateFile_init ==
    /\ jpc = "idle"
    /\ \E o \in Objects :
          IF jfiles["path"].exists /\ ~jfiles["path"].complete
          THEN /\ objs' = [objs EXCEPT ![o] = NoObject]
               /\ jraised' = "JSONDecodeError"
               /\ jlast' = [op |-> "load failed", obj |-> o]
          ELSE /\ objs' = [objs EXCEPT ![o] =
                              [created |-> TRUE,
                               state |-> IF jfiles["path"].exists
                                         THEN json_load(jfiles["path"].object)
                                         ELSE EmptyMap]]
               /\ jraised' = "none"
               /\ jlast' = [op |-> "load", obj |-> o]
    /\ UNCHANGED <<jfiles, jpc, with_obj, tx>>
    /\ UNCHANGED otherThanState

\* base.py 297-299: `with statefile as state:` hands out the map, unreloaded
JSONStateFile_enter ==
    /\ jpc = "idle"
    /\ \E o \in Objects :
          /\ objs[o].created
          /\ with_obj' = o
    /\ jpc' = "with"
    /\ jraised' = "none"
    /\ tx' = NoTx
    /\ jlast' = [op |-> "enter", obj |-> with_obj']
    /\ UNCHANGED <<jfiles, objs>>
    /\ UNCHANGED otherThanState

\* the body of the `with` block assigns state[k] = v
WithSet ==
    /\ jpc = "with"
    /\ \E k \in StateKeys, v \in PyValues :
          /\ objs' = [objs EXCEPT ![with_obj].state = dict_set(@, k, v)]
          /\ tx' = [tx EXCEPT !.set = TRUE, !.k = k, !.v = v]
    /\ UNCHANGED <<jfiles, jpc, with_obj, jraised, jlast>>
    /\ UNCHANGED otherThanState

\* base.py 301-302 with save called only when the block ended normally
JSONStateFile_exit_OnSuccess ==
    /\ jpc = "with"
    /\ jraised' \in {"none", "StepFailedError"}
    /\ jpc' = IF jraised' = "none" THEN "save" ELSE "idle"
    /\ UNCHANGED <<jfiles, objs, with_obj, tx, jlast>>
    /\ UNCHANGED otherThanState

\* base.py 301-302: the block ends, normally or by an exception, and
\* __exit__ calls save
JSONStateFile_exit ==
    /\ jpc = "with"
    /\ jraised' \in {"none", "StepFailedError"}
    /\ jpc' = "save"
    /\ UNCHANGED <<jfiles, objs, with_obj, tx, jlast>>
    /\ UNCHANGED otherThanState

\* save writing over the state file itself
tmp_path_Final == "path"

\* base.py 292: tmp_path = Path(str(self._path) + '~')
tmp_path == "path~"

\* base.py 292-293: save opens the temporary file for writing
SaveOpen ==
    /\ jpc = "save"
    /\ jfiles' = [jfiles EXCEPT ![tmp_path] =
                     [exists |-> TRUE, complete |-> FALSE, object |-> EmptyMap]]
    /\ jpc' = "dump"
    /\ UNCHANGED <<objs, with_obj, jraised, tx, jlast>>
    /\ UNCHANGED otherThanState

\* base.py 293-294: json.dump writes the map and the file is closed
SaveDump ==
    /\ jpc = "dump"
    /\ jfiles' = [jfiles EXCEPT ![tmp_path] =
                     [exists |-> TRUE, complete |-> TRUE,
                      object |-> json_dump(objs[with_obj].state)]]
    /\ jpc' = "rename"
    /\ UNCHANGED <<objs, with_obj, jraised, tx, jlast>>
    /\ UNCHANGED otherThanState

\* base.py 295: os.rename(tmp_path, self._path) ends save and the block
SaveRename ==
    /\ jpc = "rename"
    /\ jfiles' = [p \in DOMAIN jfiles |->
                     IF p = "path" THEN jfiles[tmp_path]
                     ELSE IF p = tmp_path THEN NoJFile ELSE jfiles[p]]
    /\ jpc' = "idle"
    /\ tx' = [tx EXCEPT !.saved = TRUE, !.map = objs[with_obj].state]
    /\ jlast' = [op |-> "save", obj |-> with_obj]
    /\ with_obj' = "none"
    /\ UNCHANGED <<objs, jraised>>
    /\ UNCHANGED otherThanState

\* the process stops (killed, power loss); a later run starts with the files
\* it left and no object
ProcessStops ==
    /\ jpc # "idle"
    /\ objs' = [o \in Objects |-> NoObject]
    /\ jpc' = "idle"
    /\ with_obj' = "none"
    /\ jraised' = "none"
    /\ jlast' = [op |-> "stopped", obj |-> with_obj]
    /\ UNCHANGED <<jfiles, tx>>
    /\ UNCHANGED otherThanState

\* base.py 286-287: load reads whatever is at the path; between two runs the
\* state file was cut short (edited, copied from a full disk, lost its data
\* in a power failure after an unsynced rename)
StateFileTruncated ==
    /\ jpc = "idle"
    /\ jfiles["path"].exists
    /\ jfiles["path"].complete
    /\ jfiles' = [jfiles EXCEPT !["path"] =
                     [exists |-> TRUE, complete |-> FALSE, object |-> EmptyMap]]
    /\ objs' = [o \in Objects |-> NoObject]
    /\ jlast' = [op |-> "truncated", obj |-> "none"]
    /\ UNCHANGED <<jpc, with_obj, jraised, tx>>
    /\ UNCHANGED otherThanState

----------------------------------------------------------------------------
(* Patcher (builders/base.py 522-569) *)

\* longest patch list of a builder's configuration
MaxPatches == 2

\* the patch files the configuration can name, by basename
PatchRefs == {"A", "B"}

\* what a patch file can hold
PatchContents == {"a", "b"}

\* latest time of the file system clock while patches are imported
MaxPatchClock == 1

\* the `patches` lists of a configuration
PatchLists == UNION {[1..n -> PatchRefs] : n \in 0..MaxPatches}

\* base.py 541 with serial numbers that start at one
prefix_fmt_OneBased(serial) ==
    <<((serial + 1) \div 1000) % 10, ((serial + 1) \div 100) % 10,
      ((serial + 1) \div 10) % 10, (serial + 1) % 10>>

\* base.py 541: '{serial:04d}_', the four digits of a serial below 10000
prefix_fmt(serial) ==
    <<(serial \div 1000) % 10, (serial \div 100) % 10,
      (serial \div 10) % 10, serial % 10>>

\* base.py 544: prefix_fmt.format(serial=...) + str(Path(patch).name)
cache_name(serial, patch) == <<prefix_fmt(serial), patch>>

\* the names import_patches can give a file
CacheNames ==
    {<<<<0, 0, 0, d>>, patch>> : d \in 0..MaxPatches, patch \in PatchRefs}

\* order of file names: by the digits of the prefix, then by basename
FilenameBefore(m, n) ==
    \/ \E i \in 1..4 : /\ m[1][i] < n[1][i]
                        /\ \A j \in 1..(i - 1) : m[1][j] = n[1][j]
    \/ m[1] = n[1] /\ m[2] = "A" /\ n[2] = "B"

RECURSIVE import_loop(_, _, _)
\* base.py 543-548: the loop over patchset from entry i; st holds the cache
\* directory, self.sequence_number, self.patchset, `changed` and what
\* import_source raised
import_loop(patchset, i, st) ==
    IF i > Len(patchset) THEN st
    ELSE LET patch == patchset[i]
             target == cache_name(st.sequence_number, patch)
             sts == psrc[patch]
             stt == st.cache[target]
         IN  IF ~sts.exists
             THEN [st EXCEPT !.sequence_number = @ + 1,
                             !.raised = "StepFailedError"]
             ELSE LET imported == detect_change(sts, stt, FALSE) # "unchanged"
                  IN  import_loop(patchset, i + 1,
                          [cache |-> IF imported
                                     THEN [st.cache EXCEPT
                                              ![target] = NewFile(sts.content)]
                                     ELSE st.cache,
                           sequence_number |-> st.sequence_number + 1,
                           patchset |-> Append(st.patchset, target),
                           changed |-> st.changed \/ imported,
                           raised |-> "none"])

\* base.py 549-552 removing nothing
stale_patches_None(files, patchset) == {}

\* base.py 549-550: the files of cache_dir that are not in self.patchset
stale_patches(files, patchset) ==
    {n \in DOMAIN files : files[n].exists /\ n \notin Range(patchset)}

NoPatcher == [sequence_number |-> 0, patchset |-> <<>>]

\* a call: its list, what it returned, whether a patch file was written or
\* removed since; the list of the call before it, and whether that call
\* returned and left the patch files this call found
NoImport == [list |-> <<>>, returned |-> "none", src_changed |-> FALSE,
             prev_list |-> <<>>, prev_ok |-> FALSE]

NoApply == [exits |-> <<>>, raised |-> <<"none">>]

PatchInit ==
    /\ psrc = [r \in PatchRefs |-> NoFile]
    /\ cache = [n \in CacheNames |-> NoFile]
    /\ patcher = NoPatcher
    /\ ppc = "none"
    /\ plast = NoImport
    /\ tree = NoApply

\* time passes
TickPatch == clock < MaxPatchClock /\ Tick

\* the user writes a patch file
WritePatch ==
    /\ ppc \notin {"new", "apply"}
    /\ \E r \in PatchRefs, content \in PatchContents :
          psrc' = [psrc EXCEPT ![r] = NewFile(content)]
    /\ plast' = [plast EXCEPT !.src_changed = TRUE]
    /\ UNCHANGED <<cache, patcher, ppc, tree>>
    /\ UNCHANGED otherThanPatch

\* the user removes a patch file
UnlinkPatch ==
    /\ ppc \notin {"new", "apply"}
    /\ \E r \in PatchRefs :
          /\ psrc[r].exists
          /\ psrc' = [psrc EXCEPT ![r] = NoFile]
    /\ plast' = [plast EXCEPT !.src_changed = TRUE]
    /\ UNCHANGED <<cache, patcher, ppc, tree>>
    /\ UNCHANGED otherThanPatch

\* base.py 527-531: a stage creates its Patcher (dtb.py 86, fsbl.py 64,
\* rootfs.py 89, uboot.py 104)
Patcher_init ==
    /\ ppc \notin {"new", "apply"}
    /\ patcher' = [sequence_number |-> 0, patchset |-> <<>>]
    /\ ppc' = "new"
    /\ tree' = NoApply
    /\ UNCHANGED <<psrc, cache, plast>>
    /\ UNCHANGED otherThanPatch

\* base.py 533-553: the stage imports the patches of its configuration
import_patches ==
    /\ ppc = "new"
    /\ \E patchset \in PatchLists :
       \E st \in {import_loop(patchset, 1,
                       [cache |-> cache,
                        sequence_number |-> patcher.sequence_number,
                        patchset |-> patcher.patchset,
                        changed |-> FALSE,
                        raised |-> "none"])} :
          LET stale == stale_patches(st.cache, st.patchset)
          IN  /\ patcher' = [sequence_number |-> st.sequence_number,
                             patchset |-> st.patchset]
              /\ IF st.raised # "none"
                 THEN /\ cache' = st.cache
                      /\ ppc' = "failed"
                 ELSE /\ cache' = [n \in DOMAIN cache |->
                                      IF n \in stale THEN NoFile ELSE st.cache[n]]
                      /\ ppc' = "imported"
              /\ plast' = [list |-> patchset,
                           returned |-> IF st.raised # "none" THEN st.raised
                                        ELSE IF st.changed \/ stale # {}
                                        THEN "true" ELSE "false",
                           src_changed |-> FALSE,
                           prev_list |-> plast.list,
                           prev_ok |-> /\ plast.returned \in {"true", "false"}
                                       /\ ~plast.src_changed]
    /\ UNCHANGED <<psrc, tree>>
    /\ UNCHANGED otherThanPatch

\* base.py 555-563: the stage applies the patches to a fresh source tree
Patcher_apply ==
    /\ ppc = "imported"
    /\ ppc' = "apply"
    /\ UNCHANGED <<psrc, cache, patcher, plast, tree>>
    /\ UNCHANGED otherThanPatch

\* base.py 563-569 going on to the next patch after a failure
ApplyStep_Continue ==
    /\ ppc = "apply"
    /\ Len(tree.exits) < Len(patcher.patchset)
    /\ \E exit \in {0, 1, 2} :
          tree' = [exits |-> Append(tree.exits, exit),
                   raised |-> IF exit = 0 THEN tree.raised
                              ELSE <<"failed", exit>>]
    /\ UNCHANGED <<psrc, cache, patcher, ppc, plast>>
    /\ UNCHANGED otherThanPatch

\* base.py 563-569: `patch` runs on the next file of self.patchset and its
\* exit status decides
ApplyStep ==
    /\ ppc = "apply"
    /\ Len(tree.exits) < Len(patcher.patchset)
    /\ LET patch == patcher.patchset[Len(tree.exits) + 1]
       IN  \E exit \in {0, 1, 2} :
              /\ tree' = [exits |-> Append(tree.exits, exit),
                          raised |->
                              CASE exit = 0 -> <<"none">>
                                [] exit = 1 ->
                                    <<"StepFailedError", "Patch", patch,
                                      "did not apply correctly.">>
                                [] exit = 2 ->
                                    <<"StepFailedError",
                                      "patch failed to execute correctly.">>]
              /\ ppc' = IF exit = 0 THEN "apply" ELSE "apply failed"
    /\ UNCHANGED <<psrc, cache, patcher, plast>>
    /\ UNCHANGED otherThanPatch

\* base.py 563: the loop of apply ends
ApplyReturn ==
    /\ ppc = "apply"
    /\ Len(tree.exits) = Len(patcher.patchset)
    /\ ppc' = "applied"
    /\ UNCHANGED <<psrc, cache, patcher, plast, tree>>
    /\ UNCHANGED otherThanPatch

\* base.py 165-172: distclean empties the build workspace, the patch cache
\* directory with it
DistcleanPatches ==
    /\ ppc \notin {"new", "apply"}
    /\ \E n \in CacheNames : cache[n].exists
    /\ cache' = [n \in CacheNames |-> NoFile]
    /\ ppc' = "none"
    /\ plast' = NoImport
    /\ UNCHANGED <<psrc, patcher, tree>>
    /\ UNCHANGED otherThanPatch

----------------------------------------------------------------------------
(* BypassableStage (builders/base.py 432-480) and the stages of a builder
   that declares one (builders/qspi.py, jtag.py, rpm.py) *)

\* latest time of the file system clock in the runs of these stages
MaxBypassClock == 4

\* what a bypass bundle can hold
BundleContents == {"a", "b"}

\* a file written, or with its inode changed, at time t
FileAt(content, t) ==
    [exists |-> TRUE, content |-> content, mtime |-> t, ctime |-> t]

\* base.py 160-163 and qspi.py 31-38: the default distclean and clean, plain
\* stages without a check that run __distclean, and build, a BypassableStage
\* with a check; extract_bypass is the constructor's argument (base.py 446)
BypassStages ==
    {[name |-> n, class |-> "Stage", has_check |-> FALSE,
      extract_bypass |-> FALSE] : n \in {"distclean", "clean"}}
    \cup {[name |-> "build", class |-> "BypassableStage", has_check |-> TRUE,
           extract_bypass |-> e] : e \in BOOLEAN}

\* base.py 453-459 without the test of the bypass file
BypassableStage_check_NoBypass(stage, own) ==
    [result |-> Stage_check(stage, own),
     own |-> IF stage.has_check THEN own ELSE "not invoked"]

\* base.py 453-459: BypassableStage.check; `own` is what the stage's check
\* function would return
BypassableStage_check(stage, own) ==
    IF bundle.exists
    THEN [result |-> "true", own |-> "not invoked"]
    ELSE [result |-> Stage_check(stage, own),
          own |-> IF stage.has_check THEN own ELSE "not invoked"]

\* base.py 470-471 without the test of the canary
needs_extract_ImportOnly(imported, marker) == imported

\* base.py 470-471: import_source(...) or not bypass_canary.exists()
needs_extract(imported, marker) == imported \/ ~marker.exists

NoBLast == [stage |-> "none", class |-> "none", extract_bypass |-> FALSE,
            op |-> "none", bypassed |-> FALSE, own |-> "not invoked",
            result |-> "none", extracted |-> FALSE, canary_newer |-> FALSE,
            fresh |-> FALSE, effect |-> FALSE, again |-> FALSE]

BypassInit ==
    /\ bundle = NoFile
    /\ aside = NoFile
    /\ bcopy = NoFile
    /\ canary = NoFile
    /\ outdir = <<"empty">>
    /\ workspace = "empty"
    /\ blast = NoBLast

\* the operator puts a bundle in the user sources directory
WriteBundle ==
    /\ clock < MaxBypassClock
    /\ clock' = clock + 1
    /\ \E content \in BundleContents : bundle' = FileAt(content, clock')
    /\ blast' = NoBLast
    /\ UNCHANGED <<aside, bcopy, canary, outdir, workspace>>
    /\ UNCHANGED otherThanBypass

\* the operator changes the mode or owner of the bundle, or renames a file
\* to its name: the modification time stays
ChmodBundle ==
    /\ clock < MaxBypassClock
    /\ bundle.exists
    /\ clock' = clock + 1
    /\ bundle' = [bundle EXCEPT !.ctime = clock']
    /\ blast' = NoBLast
    /\ UNCHANGED <<aside, bcopy, canary, outdir, workspace>>
    /\ UNCHANGED otherThanBypass

\* the operator removes the bundle
UnlinkBundle ==
    /\ bundle.exists
    /\ bundle' = NoFile
    /\ blast' = NoBLast
    /\ UNCHANGED <<clock, aside, bcopy, canary, outdir, workspace>>
    /\ UNCHANGED otherThanBypass

\* main.py 79 and 100: sources_directory is read from the configuration
\* file; the stages run with the other sources directory (another
\* configuration file, or the directory renamed), whose files keep their
\* timestamps
SwitchSources ==
    /\ bundle.exists \/ aside.exists
    /\ bundle' = aside
    /\ aside' = bundle
    /\ blast' = NoBLast
    /\ UNCHANGED <<clock, bcopy, canary, outdir, workspace>>
    /\ UNCHANGED otherThanBypass

\* main.py check phase: stage.check() of a stage of the builder
StageCheck ==
    /\ \E stage \in BypassStages, own \in {"true", "false", "StepFailedError"} :
          LET r == IF stage.class = "BypassableStage"
                   THEN BypassableStage_check(stage, own)
                   ELSE [result |-> Stage_check(stage, own),
                         own |-> IF stage.has_check THEN own
                                 ELSE "not invoked"]
          IN  blast' = [NoBLast EXCEPT
                           !.stage = stage.name,
                           !.class = stage.class,
                           !.extract_bypass = stage.extract_bypass,
                           !.op = "check",
                           !.bypassed = bundle.exists,
                           !.own = r.own,
                           !.result = r.result]
    /\ UNCHANGED <<clock, bundle, aside, bcopy, canary, outdir, workspace>>
    /\ UNCHANGED otherThanBypass

\* what the run of a stage found and did, for blast
RunRecord(stage, own, result, extracted) ==
    [NoBLast EXCEPT
        !.stage = stage.name,
        !.class = stage.class,
        !.extract_bypass = stage.extract_bypass,
        !.op = "run",
        !.bypassed = bundle.exists,
        !.own = own,
        !.result = result,
        !.extracted = extracted,
        !.canary_newer = canary.exists /\ canary.mtime > bundle.mtime,
        !.fresh = /\ canary.exists
                  /\ bcopy.exists
                  /\ bcopy.content = bundle.content
                  /\ bcopy.mtime >= bundle.mtime
                  /\ bcopy.ctime >= bundle.ctime,
        !.effect = <<bcopy', canary', outdir', workspace'>>
                       # <<bcopy, canary, outdir, workspace>>,
        !.again = /\ blast.op = "run"
                  /\ blast.stage = stage.name
                  /\ blast.extract_bypass = stage.extract_bypass
                  /\ blast.bypassed
                  /\ blast.result = "returned"]

\* base.py 165-172: __distclean, the run function of distclean and clean
\* (base.py 116-117: Stage.run calls it whether or not a bundle exists)
RunDistclean(stage) ==
    /\ stage.class = "Stage"
    /\ bcopy' = NoFile
    /\ canary' = NoFile
    /\ outdir' = <<"empty">>
    /\ workspace' = "empty"
    /\ blast' = RunRecord(stage, "returned", "returned", FALSE)
    /\ UNCHANGED clock

\* base.py 480: no bundle, super().run() runs the stage's own function,
\* which builds in the workspace and writes the outputs, or fails
RunOwn(stage) ==
    /\ stage.class = "BypassableStage"
    /\ ~bundle.exists
    /\ UNCHANGED <<clock, bcopy, canary>>
    /\ \E result \in {"returned", "StepFailedError"} :
          /\ workspace' = "built"
          /\ outdir' = IF result = "returned" THEN <<"built">> ELSE outdir
          /\ blast' = RunRecord(stage, result, result, FALSE)

\* base.py 464-468: bypassed, and extraction is not this stage's business
RunNoExtract(stage) ==
    /\ stage.class = "BypassableStage"
    /\ bundle.exists
    /\ ~stage.extract_bypass
    /\ UNCHANGED <<clock, bcopy, canary, outdir, workspace>>
    /\ blast' = RunRecord(stage, "not invoked", "returned", FALSE)

\* base.py 469-479: bypassed; the bundle is imported into the build
\* workspace, and extracted when the import reported a change or the canary
\* is missing; tar exits with 0 or fails
RunExtract(stage) ==
    /\ stage.class = "BypassableStage"
    /\ bundle.exists
    /\ stage.extract_bypass
    /\ clock < MaxBypassClock
    /\ LET imported == detect_change(bundle, bcopy, FALSE) # "unchanged"
           extract == needs_extract(imported, canary)
       IN  /\ clock' = IF imported \/ extract THEN clock + 1 ELSE clock
           /\ bcopy' = IF imported THEN FileAt(bundle.content, clock')
                       ELSE bcopy
           /\ UNCHANGED workspace
           /\ IF extract
              THEN \E tar \in {0, 2} :
                      IF tar = 0
                      THEN /\ outdir' = <<"extracted", bundle.content>>
                           /\ canary' = FileAt("", clock')
                           /\ blast' = RunRecord(stage, "not invoked",
                                                 "returned", TRUE)
                      ELSE /\ outdir' = <<"empty">>
                           /\ canary' = NoFile
                           /\ blast' = RunRecord(stage, "not invoked",
                                                 "CalledProcessError", FALSE)
              ELSE /\ UNCHANGED <<outdir, canary>>
                   /\ blast' = RunRecord(stage, "not invoked", "returned",
                                         FALSE)

\* main.py run phase: stage.run() of a stage of the builder
StageRun ==
    /\ \E stage \in BypassStages :
          \/ RunDistclean(stage)
          \/ RunOwn(stage)
          \/ RunNoExtract(stage)
          \/ RunExtract(stage)
    /\ UNCHANGED <<bundle, aside>>
    /\ UNCHANGED otherThanBypass

----------------------------------------------------------------------------
(* The prepare stages of the builders (builders/uboot.py, rootfs.py,      *)
(* fsbl.py, dtb.py, kernel.py, pmu.py) on one builder's workspace          *)

PrepBuilders == {"u-boot", "rootfs", "fsbl", "dtb", "kernel", "pmu"}

\* fsbl.py 46-47, kernel.py 101-102, pmu.py 58-59: the builders that create
\* one JSONStateFile in check() and keep it for the whole process
KeepsStatefile == {"fsbl", "kernel", "pmu"}

\* the patch lists a configuration can name, the contents of the patch files
\* included
PatchSets == {"p0", "p1"}

\* the contents of the user's configuration file and of system.xsa
ConfigContents == {"c1", "c2"}
XsaContents == {"x1", "x2"}

\* what happens to one run of prepare from outside: nothing, a bypass bundle
\* is present, system.xsa is newer than its copy, a file or tool fails, or
\* the process stops at some point
Events ==
    {"none", "bypassed", "touched", "xsa", "import", "extract", "apply",
     "generate", "copy", "header", "stop_import", "stop_reset",
     "stop_extract", "stop_apply"}

\* the events that can reach the code of builder b
EventsOf(b) ==
    CASE b = "u-boot" -> Events \ {"touched", "xsa", "generate", "copy"}
      [] b = "rootfs" -> Events \ {"touched", "xsa", "generate", "copy", "header"}
      [] b = "fsbl" -> Events \ {"generate", "copy", "header"}
      [] b = "dtb" -> Events \ {"copy", "header"}
      [] b = "kernel" ->
            {"none", "bypassed", "extract", "copy", "stop_extract"}
      [] b = "pmu" ->
            {"none", "bypassed", "xsa", "extract", "stop_extract"}

\* values of the state map: a missing key, flags, None (the digests are the
\* values of hash_file)
Absent == <<"absent">>
PyTrue == <<"bool", "True">>
PyFalse == <<"bool", "False">>
PyNone == <<"NoneType", "None">>

\* the state map of a workspace without a state file
NoState ==
    [tree_ready |-> Absent, project_generated |-> Absent,
     dts_generated |-> Absent, user_config_hash |-> Absent,
     built_config_hash |-> Absent, xsa_hash |-> Absent]

\* state.get(k, False) taken as a condition
Truthy(state, k) == state[k] = PyTrue

\* a source or project tree: does its directory exist, did its extraction or
\* generation finish, the patch list applied to it, its .config
NoTree == [exists |-> FALSE, complete |-> FALSE, patched |-> "none",
           config |-> "none"]

NoDts == [exists |-> FALSE, patched |-> "none"]

\* base.py 165-169: the build workspace after rmtree and mkdir
EmptyWorkspace ==
    [state |-> NoState, patches |-> "empty", tree |-> NoTree,
     dotconfig |-> "none", xsa |-> "none", dts |-> NoDts]

NoStatefile == [loaded |-> FALSE, state |-> NoState]

NoEv == [changed |-> FALSE, attempted |-> FALSE, extracted |-> FALSE,
         applied |-> FALSE, copied |-> FALSE, generated |-> FALSE]

NoRun == [tick |-> FALSE, builder |-> "none", event |-> "none",
          seen_ready |-> FALSE, after_distclean |-> FALSE, ev |-> NoEv,
          ended |-> "none", raised |-> "none"]

\* the flag of builder b that guards its tree
ReadyFlag(b) ==
    IF b \in {"fsbl", "pmu"} THEN "project_generated" ELSE "tree_ready"

PrepInit ==
    /\ bld = "none"
    /\ usr = [patches |-> "p0", config |-> "c1", xsa |-> "x1"]
    /\ bdisk = EmptyWorkspace
    /\ statefile = NoStatefile
    /\ bout = "none"
    /\ distcleaned = FALSE
    /\ prun = NoRun

\* check_bypass(STAGE, PATHS, LOGGER) of the builders' base module: true when
\* the builder's bypass bundle is present
check_bypass(bundle_present) == bundle_present

\* the run goes on: nothing was raised and the process lives
Go(c) == c.raised = "none" /\ ~c.stopped

Raise(c, exception) == [c EXCEPT !.raised = exception]

\* the process stops here when that is what happens to this run
StopAt(c, out, label) ==
    IF Go(c) /\ out.event = label THEN [c EXCEPT !.stopped = TRUE] ELSE c

\* `with statefile as state: state[k] = v`: the assignment and the save of
\* __exit__ (base.py 291-302)
with_set(c, k, v) ==
    [c EXCEPT !.st[k] = v, !.disk.state = [c.st EXCEPT ![k] = v]]

\* patcher = Patcher(build / 'patches'); patcher.import_patches(...): the
\* cache becomes the configured list and the call tells whether it differed;
\* a failed call raises and leaves whatever it had reached
ImportPatches(c, out) ==
    IF ~Go(c) THEN c
    ELSE IF out.event = "import"
    THEN Raise([c EXCEPT !.disk.patches = out.left], "StepFailedError")
    ELSE StopAt([c EXCEPT !.disk.patches = usr.patches,
                          !.ev.changed = (c.disk.patches # usr.patches)],
                out, "stop_import")

\* import_source(..., 'system.xsa', build / 'system.xsa'): raises when the
\* user has no system.xsa, else copies it when it is newer or differs
ImportXsa(c, out) ==
    IF ~Go(c) THEN c
    ELSE IF out.event = "xsa" THEN Raise(c, "StepFailedError")
    ELSE [c EXCEPT !.disk.xsa = usr.xsa,
                   !.ev.changed = \/ c.disk.xsa # usr.xsa
                                  \/ out.event = "touched"]

\* base.untar (base.py 483-519), kernel.py 218-241: the target directory is
\* removed, made anew and filled from the archive
Untar(c, out) ==
    IF ~Go(c) THEN c
    ELSE LET begun == [c EXCEPT !.disk.tree = [NoTree EXCEPT !.exists = TRUE],
                                !.ev.attempted = TRUE]
         IN  IF out.event = "extract" THEN Raise(begun, "StepFailedError")
             ELSE IF out.event = "stop_extract" THEN StopAt(begun, out, "stop_extract")
             ELSE [begun EXCEPT !.disk.tree.complete = TRUE,
                                !.ev.extracted = TRUE]

\* fsbl.py 72-90, pmu.py 83-106: the project workspace is removed, made anew
\* and filled by xsct; without a try block the error of xsct is what leaves
\* fsbl's prepare
Generate(c, out, exception) ==
    IF ~Go(c) THEN c
    ELSE LET begun == [c EXCEPT !.disk.tree = [NoTree EXCEPT !.exists = TRUE],
                                !.ev.attempted = TRUE]
         IN  IF out.event = "extract" THEN Raise(begun, exception)
             ELSE IF out.event = "stop_extract" THEN StopAt(begun, out, "stop_extract")
             ELSE [begun EXCEPT !.disk.tree.complete = TRUE,
                                !.ev.extracted = TRUE]

\* patcher.apply(...) with a failing patch passed over
Apply_IgnoreFailure(c, out) ==
    IF ~Go(c) THEN c
    ELSE LET begun == [c EXCEPT !.disk.tree.patched = "partial",
                                !.ev.applied = TRUE]
         IN  IF out.event = "apply" THEN begun
             ELSE IF out.event = "stop_apply" THEN StopAt(begun, out, "stop_apply")
             ELSE [begun EXCEPT !.disk.tree.patched = c.disk.patches]

\* patcher.apply(...) (base.py 556-569): every patch of the imported list is
\* applied, or the first failure raises and the tree stays partly patched
Apply(c, out) ==
    IF ~Go(c) THEN c
    ELSE LET begun == [c EXCEPT !.disk.tree.patched = "partial",
                                !.ev.applied = TRUE]
         IN  IF out.event = "apply" THEN Raise(begun, "StepFailedError")
             ELSE IF out.event = "stop_apply" THEN StopAt(begun, out, "stop_apply")
             ELSE [begun EXCEPT !.disk.tree.patched = c.disk.patches]

\* uboot.py 118-127, rootfs.py 102-111: the user's configuration is imported
\* to build/.config by content (ignore_timestamps) and, when that changed it
\* and its digest is not the recorded one, copied into the tree
ImportConfig(c, out) ==
    IF ~Go(c) THEN c
    ELSE IF usr.config = "none" THEN Raise(c, "StepFailedError")
    ELSE LET changed == c.disk.dotconfig # usr.config
             imported == [c EXCEPT !.disk.dotconfig = usr.config]
             user_config_hash == hash_file("sha256", [content |-> usr.config])
         IN  IF changed /\ imported.st.user_config_hash # user_config_hash
             THEN with_set([imported EXCEPT !.disk.tree.config = usr.config,
                                            !.ev.copied = TRUE],
                           "user_config_hash", user_config_hash)
             ELSE imported

\* uboot.py 142, rootfs.py 114, kernel.py 265: shutil.copyfile(tree/.config,
\* output/...), which raises when the tree has no .config
CopyOut(c) ==
    IF ~Go(c) THEN c
    ELSE IF c.disk.tree.config = "none" THEN Raise(c, "FileNotFoundError")
    ELSE [c EXCEPT !.outc = c.disk.tree.config]

\* uboot.py 106-116, rootfs.py 90-100: import the patches, reset the flag on
\* a change, and unless the flag is set extract, apply and set it
PreparePatchedTree(c, out) ==
    LET imported == ImportPatches(c, out)
        reset == IF Go(imported) /\ imported.ev.changed
                 THEN with_set(imported, "tree_ready", PyFalse)
                 ELSE imported
        here == StopAt(reset, out, "stop_reset")
    IN  IF ~Go(here) \/ Truthy(here.st, "tree_ready") THEN here
        ELSE LET applied == Apply(Untar(here, out), out)
             IN  IF Go(applied) THEN with_set(applied, "tree_ready", PyTrue)
                 ELSE applied

\* uboot.py 98-142
UBootBuilder_prepare_body(c, out) ==
    LET configured == ImportConfig(PreparePatchedTree(c, out), out)
        header == IF Go(configured) /\ out.event = "header"
                  THEN Raise(configured, "StepFailedError")
                  ELSE configured
    IN  CopyOut(header)

\* rootfs.py 83-114
RootfsBuilder_prepare_body(c, out) ==
    CopyOut(ImportConfig(PreparePatchedTree(c, out), out))

\* fsbl.py 55-93
FSBLBuilder_prepare_body(c, out) ==
    LET xsa == ImportXsa(c, out)
        reset1 == IF Go(xsa) /\ xsa.ev.changed
                  THEN with_set(xsa, "project_generated", PyFalse)
                  ELSE xsa
        imported == ImportPatches([reset1 EXCEPT !.ev.changed = FALSE], out)
        reset2 == IF Go(imported) /\ imported.ev.changed
                  THEN with_set(imported, "project_generated", PyFalse)
                  ELSE imported
        here == StopAt(reset2, out, "stop_reset")
    IN  IF ~Go(here) \/ Truthy(here.st, "project_generated") THEN here
        ELSE LET applied == Apply(Generate(here, out, "CalledProcessError"), out)
             IN  IF Go(applied)
                 THEN with_set(applied, "project_generated", PyTrue)
                 ELSE applied

\* dtb.py 76-134
DTBBuilder_prepare_body(c, out) ==
    LET xsa == ImportXsa(c, out)
        reset1 == IF Go(xsa) /\ xsa.ev.changed
                  THEN with_set(xsa, "dts_generated", PyFalse)
                  ELSE xsa
        imported == ImportPatches([reset1 EXCEPT !.ev.changed = FALSE], out)
        reset2 == IF Go(imported) /\ imported.ev.changed
                  THEN with_set(imported, "dts_generated", PyFalse)
                  ELSE imported
        here == StopAt(reset2, out, "stop_reset")
        tree_done ==
            IF ~Go(here) \/ Truthy(here.st, "tree_ready") THEN here
            ELSE LET applied == Apply(Untar(here, out), out)
                 IN  IF Go(applied) THEN with_set(applied, "tree_ready", PyTrue)
                     ELSE applied
    IN  IF ~Go(tree_done) \/ Truthy(tree_done.st, "dts_generated") THEN tree_done
        ELSE LET removed == [tree_done EXCEPT !.disk.dts = NoDts]
             IN  IF out.event = "generate" THEN Raise(removed, "StepFailedError")
                 ELSE [with_set(removed, "dts_generated", PyTrue)
                          EXCEPT !.disk.dts = [exists |-> TRUE,
                                               patched |-> removed.disk.tree.patched],
                                 !.ev.generated = TRUE]

\* kernel.py 209-265
KernelBuilder_prepare_body(c, out) ==
    LET tree_done ==
            IF Truthy(c.st, "tree_ready") THEN c
            ELSE LET extracted == Untar(c, out)
                 IN  IF Go(extracted)
                     THEN with_set(extracted, "tree_ready", PyTrue)
                     ELSE extracted
        user_config_hash == hash_file("sha256", [content |-> usr.config])
    IN  IF ~Go(tree_done) \/ usr.config = "none" THEN tree_done
        ELSE IF tree_done.st.user_config_hash = user_config_hash
        THEN CopyOut(tree_done)
        ELSE LET cleared == with_set(with_set(tree_done, "user_config_hash", PyNone),
                                     "built_config_hash", PyNone)
             IN  IF out.event = "copy" THEN Raise(cleared, "StepFailedError")
                 ELSE CopyOut(with_set([cleared EXCEPT
                                           !.disk.tree.config = usr.config,
                                           !.ev.copied = TRUE],
                                       "user_config_hash", user_config_hash))

\* pmu.py 62-114
PMUBuilder_prepare_body(c, out) ==
    IF out.event = "xsa" THEN Raise(c, "StepFailedError")
    ELSE LET user_xsa_hash == hash_file("sha256", [content |-> usr.xsa])
             xsa == IF c.st.xsa_hash = user_xsa_hash THEN c
                    ELSE with_set(with_set([c EXCEPT !.disk.xsa = usr.xsa,
                                                     !.ev.changed = TRUE],
                                           "xsa_hash", user_xsa_hash),
                                  "project_generated", PyFalse)
         IN  IF Truthy(xsa.st, "project_generated") THEN xsa
             ELSE LET generated == Generate(xsa, out, "StepFailedError")
                  IN  IF Go(generated)
                      THEN with_set(generated, "project_generated", PyTrue)
                      ELSE generated

\* the state map a run of prepare of builder b starts from: the kept
\* JSONStateFile, or a JSONStateFile loaded at the start of prepare
StartState(b) ==
    IF b \in KeepsStatefile THEN statefile.state
    ELSE bdisk.state

\* what is left of a run that began in context c0 and ended in context c;
\* a process runs prepare once, and nothing of the process is followed
\* after it
PrepareEnds(b, out, c0, c) ==
    /\ bdisk' = c.disk
    /\ bout' = c.outc
    /\ statefile' = NoStatefile
    /\ distcleaned' = FALSE
    /\ prun' = [tick |-> ~prun.tick,
                builder |-> b, event |-> out.event,
                seen_ready |-> Truthy(c0.st, ReadyFlag(b)),
                after_distclean |-> distcleaned,
                ev |-> c.ev,
                ended |-> IF out.event = "bypassed" THEN "bypassed"
                          ELSE IF c.stopped THEN "stopped"
                          ELSE IF c.raised # "none" THEN "raised"
                          ELSE "returned",
                raised |-> c.raised]
    /\ UNCHANGED <<bld, usr>>
    /\ UNCHANGED otherThanPrep

\* the run phase invokes prepare of builder b; a builder that keeps its
\* JSONStateFile has been through check() (main.py checks before it runs)
Prepare(b) ==
    /\ bld = b
    /\ b \in KeepsStatefile => statefile.loaded
    /\ \E event \in EventsOf(b) :
       \E left \in IF event = "import" THEN PatchSets \cup {"empty", "partial"}
                   ELSE {"empty"} :
          LET out == [event |-> event, left |-> left]
              c0 == [st |-> StartState(b), disk |-> bdisk, outc |-> bout,
                     raised |-> "none", stopped |-> FALSE, ev |-> NoEv]
          IN  \E c \in {IF check_bypass(event = "bypassed") THEN c0
                        ELSE CASE b = "u-boot" ->
                                      UBootBuilder_prepare_body(c0, out)
                               [] b = "rootfs" ->
                                      RootfsBuilder_prepare_body(c0, out)
                               [] b = "fsbl" ->
                                      FSBLBuilder_prepare_body(c0, out)
                               [] b = "dtb" ->
                                      DTBBuilder_prepare_body(c0, out)
                               [] b = "kernel" ->
                                      KernelBuilder_prepare_body(c0, out)
                               [] b = "pmu" ->
                                      PMUBuilder_prepare_body(c0, out)} :
                 PrepareEnds(b, out, c0, c)

UBootBuilder_prepare == Prepare("u-boot")

RootfsBuilder_prepare == Prepare("rootfs")

FSBLBuilder_prepare == Prepare("fsbl")

DTBBuilder_prepare == Prepare("dtb")

KernelBuilder_prepare == Prepare("kernel")

PMUBuilder_prepare == Prepare("pmu")

\* base.py 128-137: a process starts and constructs the builder of this
\* workspace
BaseBuilder_init ==
    /\ \E b \in PrepBuilders :
          /\ bld \in {"none", b}
          /\ bld' = b
    /\ statefile' = NoStatefile
    /\ distcleaned' = FALSE
    /\ bld' # bld \/ statefile.loaded \/ distcleaned
    /\ UNCHANGED <<usr, bdisk, bout, prun>>
    /\ UNCHANGED otherThanPrep

\* fsbl.py 46-47, kernel.py 101-102, pmu.py 58-59: the check phase creates
\* the builder's JSONStateFile, which loads the state file
Builder_check ==
    /\ bld \in KeepsStatefile
    /\ ~statefile.loaded
    /\ statefile' = [loaded |-> TRUE, state |-> bdisk.state]
    /\ UNCHANGED <<bld, usr, bdisk, bout, distcleaned, prun>>
    /\ UNCHANGED otherThanPrep

\* uboot.py 86-96, rootfs.py 71-81, dtb.py 64-74, kernel.py 200-206: fetch
\* found a new source archive and resets tree_ready in the state file
Builder_fetch ==
    /\ bld \in {"u-boot", "rootfs", "dtb", "kernel"}
    /\ bld \in KeepsStatefile => statefile.loaded
    /\ bdisk.state["tree_ready"] # PyFalse
    /\ bdisk' = [bdisk EXCEPT !.state =
                     [StartState(bld) EXCEPT !["tree_ready"] = PyFalse]]
    /\ statefile' = IF bld \in KeepsStatefile
                    THEN [statefile EXCEPT !.state["tree_ready"] = PyFalse]
                    ELSE statefile
    /\ UNCHANGED <<bld, usr, bout, distcleaned, prun>>
    /\ UNCHANGED otherThanPrep

\* base.py 165-172: distclean empties the build workspace, the state file
\* included, and the output directory
BaseBuilder_distclean ==
    /\ bld # "none"
    /\ bdisk' = EmptyWorkspace
    /\ bout' = "none"
    /\ distcleaned' = TRUE
    /\ UNCHANGED <<bld, usr, statefile, prun>>
    /\ UNCHANGED otherThanPrep

\* the user sources that the prepare stage of builder b reads
SourcesOf(b) ==
    CASE b \in {"u-boot", "rootfs"} -> {"patches", "config"}
      [] b \in {"fsbl", "dtb"} -> {"patches", "xsa"}
      [] b = "kernel" -> {"config"}
      [] b = "pmu" -> {"xsa"}

\* between two runs the user edits the patch list, the configuration file
\* or system.xsa
EditSources ==
    /\ bld # "none"
    /\ \E new \in [patches : PatchSets, config : ConfigContents \cup {"none"},
                   xsa : XsaContents] :
          /\ \E k \in SourcesOf(bld) :
                /\ new[k] # usr[k]
                /\ \A other \in {"patches", "config", "xsa"} \ {k} :
                      new[other] = usr[other]
          /\ usr' = new
    /\ UNCHANGED <<bld, bdisk, statefile, bout, distcleaned, prun>>
    /\ UNCHANGED otherThanPrep

----------------------------------------------------------------------------
(* main() (apx_image_builder/main.py) *)

Init ==
    /\ pc = "instantiate"
    /\ ctor = <<>>
    /\ STAGES = <<>>
    /\ valid_stages = {}
    /\ ARGS_stages = {}
    /\ stageset = <<>>
    /\ requested_stages = <<>>
    /\ required_stages_set = {}
    /\ required_stages = <<>>
    /\ sequenced_stages = <<>>
    /\ conditions_failed_for = <<>>
    /\ checked = <<>>
    /\ started = <<>>
    /\ completed = <<>>
    /\ report = <<>>
    /\ exit_code = -1
    /\ ImportInit
    /\ StateInit
    /\ PatchInit
    /\ BypassInit
    /\ PrepInit

\* main.py 127-139: the enabled builders declare their stages; the graph has
\* at most MaxDecls of the declarations `decls`, and one of the sets of
\* builders in `disabled_builders` is disabled by the configuration
instantiate_stages(decls, disabled_builders) ==
    /\ pc = "instantiate"
    /\ \E disabled \in disabled_builders :
       \E D \in SubsetsUpTo({d \in decls : d.stage[1] \notin disabled}, MaxDecls) :
          LET keys == {k \in Keys : k[1] \notin disabled}
              args == [k \in keys |-> CtorArgs(k, D)]
          IN  /\ ctor' = args
              /\ STAGES' = [k \in keys |->
                              Stage(args[k].has_check, args[k].requires,
                                    args[k].after_given, args[k].after,
                                    args[k].before, args[k].include_in_all)]
              /\ valid_stages' =
                    {<<ALL, ALL>>}
                    \cup {<<k[1], ALL>> : k \in keys}
                    \cup keys
                    \cup {<<ALL, k[2]>> : k \in keys}
    /\ pc' = "parse_args"
    /\ UNCHANGED libVars
    /\ UNCHANGED <<ARGS_stages, stageset, requested_stages, required_stages_set,
                   required_stages, sequenced_stages, conditions_failed_for,
                   checked, started, completed, report, exit_code>>

\* main.py 127-139: any builders disabled, any declarations
InstantiateStages == instantiate_stages(Decls, SUBSET Range(all_builders))

\* main.py 199-205: the command line, at most `most` selectors out of
\* `choices`, is parsed and unknown stages are rejected
parse_args(choices, most) ==
    /\ pc = "parse_args"
    /\ \E stages \in SubsetsUpTo(choices, most) \ {{}} :
          LET invalid_stages == {stage \in stages : stage \notin valid_stages}
          IN  /\ ARGS_stages' = stages
              /\ IF invalid_stages # {}
                 THEN /\ pc' = "exit"
                      /\ exit_code' = 1
                      /\ report' = <<"unknown stages", invalid_stages>>
                 ELSE /\ pc' = "sequence_stages"
                      /\ UNCHANGED <<exit_code, report>>
    /\ UNCHANGED libVars
    /\ UNCHANGED <<ctor, STAGES, valid_stages, stageset, requested_stages,
                   required_stages_set, required_stages, sequenced_stages,
                   conditions_failed_for, checked, started, completed>>

\* main.py 199: the command line of a graph with freely chosen declarations
ParseArgs == parse_args(Selectors, MaxRequested)

----------------------------------------------------------------------------
(* sequence_stages *)

\* main.py 229-242 with the include_in_all filter applied to every wildcard
resolve_alls_FilterAny(all_keys, listed_keys) ==
    UNION {IF ALL \notin {key[1], key[2]}
           THEN {key}
           ELSE {iterkey \in Range(all_keys) :
                    /\ STAGES[iterkey].include_in_all
                    /\ key[1] \in {ALL, iterkey[1]}
                    /\ key[2] \in {ALL, iterkey[2]}}
           : key \in listed_keys}

\* main.py 229-242 with every key, concrete or not, matched against the table
resolve_alls_OnlyDeclared(all_keys, listed_keys) ==
    UNION {{iterkey \in Range(all_keys) :
                /\ ~(key[2] = ALL /\ ~STAGES[iterkey].include_in_all)
                /\ key[1] \in {ALL, iterkey[1]}
                /\ key[2] \in {ALL, iterkey[2]}}
           : key \in listed_keys}

\* main.py 229-242
resolve_alls(all_keys, listed_keys) ==
    UNION {IF ALL \notin {key[1], key[2]}
           THEN {key}
           ELSE {iterkey \in Range(all_keys) :
                    /\ ~(key[2] = ALL /\ ~STAGES[iterkey].include_in_all)
                    /\ key[1] \in {ALL, iterkey[1]}
                    /\ key[2] \in {ALL, iterkey[2]}}
           : key \in listed_keys}

\* main.py 244: the declared stages in declaration order
all_keys == InNaturalOrder(DOMAIN STAGES)

\* main.py 245-253: the stage table with every ALL resolved
ResolvedStageset ==
    [stage \in DOMAIN STAGES |->
        [requires |-> resolve_alls(all_keys, STAGES[stage].requires),
         before   |-> resolve_alls(all_keys, STAGES[stage].before),
         after    |-> resolve_alls(all_keys, STAGES[stage].after)]]

\* main.py 257-260: a `before` reference to a stage that is not in the table
\* raises KeyError in stageset[before]
DanglingBefore(table) ==
    {before \in UNION {table[key].before : key \in DOMAIN table} :
        before \notin DOMAIN table}

\* main.py 257-260 with the edge added to the declaring stage instead of the
\* stage it names
FoldBefore_SameDirection(table) ==
    [stage \in DOMAIN table |->
        [requires |-> table[stage].requires,
         before   |-> {},
         after    |-> table[stage].after \cup table[stage].before]]

\* main.py 257-260: every `before` becomes an `after` of the stage it names
FoldBefore(table) ==
    [stage \in DOMAIN table |->
        [requires |-> table[stage].requires,
         before   |-> {},
         after    |-> table[stage].after
                      \cup {key \in DOMAIN table : stage \in table[key].before}]]

\* main.py 219-267: build the table, resolve, fold, resolve the request
SequenceStart ==
    /\ pc = "sequence_stages"
    /\ LET table == ResolvedStageset
       IN  IF DanglingBefore(table) # {}
           THEN /\ \E before \in DanglingBefore(table) :
                      report' = <<"KeyError", before>>
                /\ pc' = "exit"
                /\ exit_code' = 1
                /\ UNCHANGED <<stageset, requested_stages>>
           ELSE /\ stageset' = FoldBefore(table)
                /\ requested_stages' \in Orders(resolve_alls(all_keys, ARGS_stages))
                /\ pc' = "closure"
                /\ UNCHANGED <<exit_code, report>>
    /\ UNCHANGED libVars
    /\ UNCHANGED <<ctor, STAGES, valid_stages, ARGS_stages, required_stages_set,
                   required_stages, sequenced_stages, conditions_failed_for,
                   checked, started, completed>>

\* main.py 270-280 with an unavailable required stage skipped, not reported
ClosureStep_SkipMissing ==
    /\ pc = "closure"
    /\ requested_stages # <<>>
    /\ LET stage    == Head(requested_stages)
           requires == stageset[stage].requires \cap DOMAIN stageset
           new      == {required_stage \in requires :
                           required_stage \notin required_stages_set \cup {stage}}
       IN  /\ required_stages_set' = required_stages_set \cup {stage}
           /\ \E order \in Orders(new) :
                 requested_stages' = Tail(requested_stages) \o order
           /\ UNCHANGED <<pc, exit_code, report>>
    /\ UNCHANGED libVars
    /\ UNCHANGED <<ctor, STAGES, valid_stages, ARGS_stages, stageset,
                   required_stages, sequenced_stages, conditions_failed_for,
                   checked, started, completed>>

\* main.py 270-280 without the loop over stageset[stage].requires
ClosureStep_RequestedOnly ==
    /\ pc = "closure"
    /\ requested_stages # <<>>
    /\ required_stages_set' = required_stages_set \cup {Head(requested_stages)}
    /\ requested_stages' = Tail(requested_stages)
    /\ UNCHANGED <<pc, exit_code, report>>
    /\ UNCHANGED libVars
    /\ UNCHANGED <<ctor, STAGES, valid_stages, ARGS_stages, stageset,
                   required_stages, sequenced_stages, conditions_failed_for,
                   checked, started, completed>>

\* main.py 270-280: one iteration of the requires closure
ClosureStep ==
    /\ pc = "closure"
    /\ requested_stages # <<>>
    /\ LET stage    == Head(requested_stages)
           requires == stageset[stage].requires
           missing  == {required_stage \in requires :
                           required_stage \notin DOMAIN stageset}
           new      == {required_stage \in requires :
                           required_stage \notin required_stages_set \cup {stage}}
       IN  IF missing # {}
           THEN /\ \E required_stage \in missing :
                      report' = <<"unavailable", required_stage, stage>>
                /\ pc' = "exit"
                /\ exit_code' = 1
                /\ UNCHANGED <<requested_stages, required_stages_set>>
           ELSE /\ required_stages_set' = required_stages_set \cup {stage}
                /\ \E order \in Orders(new) :
                      requested_stages' = Tail(requested_stages) \o order
                /\ UNCHANGED <<pc, exit_code, report>>
    /\ UNCHANGED libVars
    /\ UNCHANGED <<ctor, STAGES, valid_stages, ARGS_stages, stageset,
                   required_stages, sequenced_stages, conditions_failed_for,
                   checked, started, completed>>

\* main.py 282-284 with the working list taken from the set as it iterates
Resequence_Unordered ==
    /\ pc = "closure"
    /\ requested_stages = <<>>
    /\ required_stages' \in Orders(required_stages_set)
    /\ sequenced_stages' = <<>>
    /\ pc' = "reorder"
    /\ UNCHANGED libVars
    /\ UNCHANGED <<ctor, STAGES, valid_stages, ARGS_stages, stageset,
                   requested_stages, required_stages_set, conditions_failed_for,
                   checked, started, completed, report, exit_code>>

\* main.py 282-284: the closure in natural order becomes the working list
Resequence ==
    /\ pc = "closure"
    /\ requested_stages = <<>>
    /\ required_stages' = InNaturalOrder(required_stages_set)
    /\ sequenced_stages' = <<>>
    /\ pc' = "reorder"
    /\ UNCHANGED libVars
    /\ UNCHANGED <<ctor, STAGES, valid_stages, ARGS_stages, stageset,
                   requested_stages, required_stages_set, conditions_failed_for,
                   checked, started, completed, report, exit_code>>

\* main.py 289 without the test
AlreadySequenced_Never(stage) == FALSE

\* main.py 289: the head of the working list was sequenced before
AlreadySequenced(stage) == stage \in Range(sequenced_stages)

\* main.py 294-295 with the test of sequenced_stages inverted
Unsequenced_Inverted(stage) ==
    {after \in stageset[stage].after :
        after \in Range(required_stages) /\ after \in Range(sequenced_stages)}

\* main.py 294-295 with a stage never taken as its own predecessor
Unsequenced_SkipSelf(stage) ==
    {after \in stageset[stage].after \ {stage} :
        after \in Range(required_stages) /\ after \notin Range(sequenced_stages)}

\* main.py 294-295 without the test that the predecessor is in the working list
Unsequenced_Unselected(stage) ==
    {after \in stageset[stage].after \cap DOMAIN stageset :
        after \notin Range(sequenced_stages)}

\* main.py 294-295: the predecessors of the head that are still to be sequenced
Unsequenced(stage) ==
    {after \in stageset[stage].after :
        after \in Range(required_stages) /\ after \notin Range(sequenced_stages)}

\* main.py 287-308: one iteration of the sequencing loop; the predecessors
\* are inserted at the front one by one in the iteration order of the set
ReorderStep ==
    /\ pc = "reorder"
    /\ required_stages # <<>>
    /\ LET stage == Head(required_stages)
       IN  IF AlreadySequenced(stage)
           THEN /\ required_stages' = Tail(required_stages)
                /\ UNCHANGED sequenced_stages
           ELSE IF Unsequenced(stage) # {}
           THEN /\ Len(required_stages) + Cardinality(Unsequenced(stage)) <= MaxWork
                /\ \E order \in Orders(Unsequenced(stage)) :
                      required_stages' = Reverse(order) \o required_stages
                /\ UNCHANGED sequenced_stages
           ELSE /\ sequenced_stages' = Append(sequenced_stages, stage)
                /\ required_stages' = Tail(required_stages)
    /\ UNCHANGED libVars
    /\ UNCHANGED <<pc, ctor, STAGES, valid_stages, ARGS_stages, stageset,
                   requested_stages, required_stages_set, conditions_failed_for,
                   checked, started, completed, report, exit_code>>

\* main.py 309-315: sequence_stages returns
SequenceReturn ==
    /\ pc = "reorder"
    /\ required_stages = <<>>
    /\ pc' = "check"
    /\ UNCHANGED libVars
    /\ UNCHANGED <<ctor, STAGES, valid_stages, ARGS_stages, stageset,
                   requested_stages, required_stages_set, required_stages,
                   sequenced_stages, conditions_failed_for, checked, started,
                   completed, report, exit_code>>

----------------------------------------------------------------------------
(* check phase and run phase *)

\* what a stage's check function can do
CheckResults == {"true", "false", "StepFailedError"}

\* what a stage's run function can do
RunResults == {"returned", "StepFailedError"}

\* main.py 323-330 with the loop left at the first failure
CheckStep_AbortEarly ==
    /\ pc = "check"
    /\ Len(checked) < Len(sequenced_stages)
    /\ LET stage == sequenced_stages[Len(checked) + 1]
       IN  \E outcome \in CheckResults :
              LET result == Stage_check(STAGES[stage], outcome)
              IN  /\ checked' = Append(checked, <<stage, result>>)
                  /\ IF result = "true"
                     THEN UNCHANGED <<conditions_failed_for, pc, report, exit_code>>
                     ELSE /\ conditions_failed_for' =
                                Append(conditions_failed_for, stage)
                          /\ report' = <<"conditions not met", conditions_failed_for'>>
                          /\ pc' = "exit"
                          /\ exit_code' = 1
    /\ UNCHANGED libVars
    /\ UNCHANGED <<ctor, STAGES, valid_stages, ARGS_stages, stageset,
                   requested_stages, required_stages_set, required_stages,
                   sequenced_stages, started, completed>>

\* main.py 323-330: one iteration of check_conditions
CheckStep ==
    /\ pc = "check"
    /\ Len(checked) < Len(sequenced_stages)
    /\ LET stage == sequenced_stages[Len(checked) + 1]
       IN  \E outcome \in CheckResults :
              LET result == Stage_check(STAGES[stage], outcome)
              IN  /\ checked' = Append(checked, <<stage, result>>)
                  /\ conditions_failed_for' =
                        IF result = "true"
                        THEN conditions_failed_for
                        ELSE Append(conditions_failed_for, stage)
    /\ UNCHANGED libVars
    /\ UNCHANGED <<pc, ctor, STAGES, valid_stages, ARGS_stages, stageset,
                   requested_stages, required_stages_set, required_stages,
                   sequenced_stages, started, completed, report, exit_code>>

\* main.py 331-338 without the abort
CheckReturn_NoAbort ==
    /\ pc = "check"
    /\ Len(checked) = Len(sequenced_stages)
    /\ pc' = "run"
    /\ UNCHANGED libVars
    /\ UNCHANGED <<ctor, STAGES, valid_stages, ARGS_stages, stageset,
                   requested_stages, required_stages_set, required_stages,
                   sequenced_stages, conditions_failed_for, checked, started,
                   completed, report, exit_code>>

\* main.py 331-338: check_conditions returns; any failure ends the process
CheckReturn ==
    /\ pc = "check"
    /\ Len(checked) = Len(sequenced_stages)
    /\ IF conditions_failed_for # <<>>
       THEN /\ report' = <<"conditions not met", conditions_failed_for>>
            /\ pc' = "exit"
            /\ exit_code' = 1
       ELSE /\ pc' = "run"
            /\ UNCHANGED <<report, exit_code>>
    /\ UNCHANGED libVars
    /\ UNCHANGED <<ctor, STAGES, valid_stages, ARGS_stages, stageset,
                   requested_stages, required_stages_set, required_stages,
                   sequenced_stages, conditions_failed_for, checked, started,
                   completed>>

\* main.py 340-346 with the loop going on after a failure
RunStep_Continue ==
    /\ pc = "run"
    /\ Len(started) < Len(sequenced_stages)
    /\ LET stage == sequenced_stages[Len(started) + 1]
       IN  /\ started' = Append(started, stage)
           /\ \E result \in RunResults :
                 IF result = "returned"
                 THEN /\ completed' = Append(completed, stage)
                      /\ UNCHANGED report
                 ELSE /\ report' = <<"failed", stage>>
                      /\ UNCHANGED completed
    /\ UNCHANGED libVars
    /\ UNCHANGED <<pc, exit_code, ctor, STAGES, valid_stages, ARGS_stages,
                   stageset, requested_stages, required_stages_set,
                   required_stages, sequenced_stages, conditions_failed_for,
                   checked>>

\* main.py 340-346 with the failure leaving the loop without an exit status
RunStep_Break ==
    /\ pc = "run"
    /\ Len(started) < Len(sequenced_stages)
    /\ LET stage == sequenced_stages[Len(started) + 1]
       IN  /\ started' = Append(started, stage)
           /\ \E result \in RunResults :
                 IF result = "returned"
                 THEN /\ completed' = Append(completed, stage)
                      /\ UNCHANGED <<pc, report, exit_code>>
                 ELSE /\ report' = <<"failed", stage>>
                      /\ pc' = "exit"
                      /\ exit_code' = 0
                      /\ UNCHANGED completed
    /\ UNCHANGED libVars
    /\ UNCHANGED <<ctor, STAGES, valid_stages, ARGS_stages, stageset,
                   requested_stages, required_stages_set, required_stages,
                   sequenced_stages, conditions_failed_for, checked>>

\* main.py 340-346: one iteration of the run loop
RunStep ==
    /\ pc = "run"
    /\ Len(started) < Len(sequenced_stages)
    /\ LET stage == sequenced_stages[Len(started) + 1]
       IN  /\ started' = Append(started, stage)
           /\ \E result \in RunResults :
                 IF result = "returned"
                 THEN /\ completed' = Append(completed, stage)
                      /\ UNCHANGED <<pc, report, exit_code>>
                 ELSE /\ report' = <<"failed", stage>>
                      /\ pc' = "exit"
                      /\ exit_code' = 1
                      /\ UNCHANGED completed
    /\ UNCHANGED libVars
    /\ UNCHANGED <<ctor, STAGES, valid_stages, ARGS_stages, stageset,
                   requested_stages, required_stages_set, required_stages,
                   sequenced_stages, conditions_failed_for, checked>>

\* main.py 348: Build complete
BuildComplete ==
    /\ pc = "run"
    /\ Len(started) = Len(sequenced_stages)
    /\ pc' = "exit"
    /\ exit_code' = 0
    /\ UNCHANGED libVars
    /\ UNCHANGED <<ctor, STAGES, valid_stages, ARGS_stages, stageset,
                   requested_stages, required_stages_set, required_stages,
                   sequenced_stages, conditions_failed_for, checked, started,
                   completed, report>>

Next ==
    \/ InstantiateStages
    \/ ParseArgs
    \/ SequenceStart
    \/ ClosureStep
    \/ Resequence
    \/ ReorderStep
    \/ SequenceReturn
    \/ CheckStep
    \/ CheckReturn
    \/ RunStep
    \/ BuildComplete

Spec == Init /\ [][Next]_vars

----------------------------------------------------------------------------
(* The sequencer alone, on graphs with freely chosen declarations *)

NextSeq ==
    \/ InstantiateStages
    \/ ParseArgs
    \/ SequenceStart
    \/ ClosureStep
    \/ Resequence
    \/ ReorderStep
    \/ SequenceReturn

SpecSeq == Init /\ [][NextSeq]_vars

----------------------------------------------------------------------------
(* The sequencer on graphs whose declarations name concrete stages *)

\* the declarations that name one stage
ConcreteDecls == {d \in Decls : d.kind # "after_given" /\ d.sel \in Keys}

\* main.py 127-139: every builder enabled, declarations without wildcards
InstantiateConcrete == instantiate_stages(ConcreteDecls, {{}})

NextLoop ==
    \/ InstantiateConcrete
    \/ ParseArgs
    \/ SequenceStart
    \/ ClosureStep
    \/ Resequence
    \/ ReorderStep
    \/ SequenceReturn

\* main() is a sequential program: it keeps executing while it has a next
\* statement
SpecLoop == Init /\ [][NextLoop]_vars /\ WF_vars(NextLoop)

----------------------------------------------------------------------------
(* The sequencer on the stage graph of the kernel builder (builders/kernel.py) *)

\* most selectors on the command line of the kernel graph
MaxKernelRequested == 2

KernelKeys == {<<"kernel", kernel_stage_names[i]>> : i \in DOMAIN kernel_stage_names}

\* kernel.py 57-95 and base.py 160-163: the arguments of each Stage(...) call
KernelCtorArgs(k) ==
    LET K(name) == <<"kernel", name>>
        name    == k[2]
    IN  [has_check      |-> name # "distclean",
         requires       |->
            CASE name \in {"distclean", "clean", "fetch"} -> {}
              [] name = "prepare" -> {K("fetch")}
              [] name \in {"defconfig", "oldconfig", "menuconfig", "olddefconfig"}
                    -> {K("prepare")}
              [] name = "build" -> {K("olddefconfig")},
         after_given    |-> name \in {"fetch", "oldconfig", "menuconfig"},
         after          |->
            CASE name = "fetch" -> {K("distclean"), K("clean")}
              [] name = "oldconfig" -> {K("prepare"), K("defconfig")}
              [] name = "menuconfig" -> {K("prepare"), K("defconfig"), K("oldconfig")}
              [] OTHER -> {},
         before         |->
            IF name \in {"defconfig", "oldconfig", "menuconfig"}
            THEN {K("olddefconfig")} ELSE {},
         include_in_all |->
            name \notin {"distclean", "clean", "defconfig", "oldconfig", "menuconfig"}]

\* main.py 127-139 with the kernel builder as the only enabled builder
InstantiateKernel ==
    /\ pc = "instantiate"
    /\ LET args == [k \in KernelKeys |-> KernelCtorArgs(k)]
       IN  /\ ctor' = args
           /\ STAGES' = [k \in KernelKeys |->
                           Stage(args[k].has_check, args[k].requires,
                                 args[k].after_given, args[k].after,
                                 args[k].before, args[k].include_in_all)]
           /\ valid_stages' =
                 {<<ALL, ALL>>, <<"kernel", ALL>>}
                 \cup KernelKeys
                 \cup {<<ALL, k[2]>> : k \in KernelKeys}
    /\ pc' = "parse_args"
    /\ UNCHANGED libVars
    /\ UNCHANGED <<ARGS_stages, stageset, requested_stages, required_stages_set,
                   required_stages, sequenced_stages, conditions_failed_for,
                   checked, started, completed, report, exit_code>>

\* the selectors tried on the kernel graph; kernel:install is not a stage
KernelSelectors ==
    KernelKeys \cup {<<"kernel", ALL>>, <<ALL, ALL>>, <<ALL, "build">>,
                     <<"kernel", "install">>}

\* main.py 199: the command line of the kernel graph
ParseArgsKernel == parse_args(KernelSelectors, MaxKernelRequested)

NextKernel ==
    \/ InstantiateKernel
    \/ ParseArgsKernel
    \/ SequenceStart
    \/ ClosureStep
    \/ Resequence
    \/ ReorderStep
    \/ SequenceReturn

SpecKernel == Init /\ [][NextKernel]_vars

----------------------------------------------------------------------------
(* import_source of local files, with the user and the build changing them *)

NextImport ==
    \/ Tick
    \/ WriteSource
    \/ ChmodSource
    \/ UnlinkSource
    \/ WriteTarget
    \/ Distclean
    \/ ImportLocal
    \/ ImportLocate
    \/ ImportReturn

SpecImport == Init /\ [][NextImport]_vars

----------------------------------------------------------------------------
(* import_source of a remote source *)

NextFetch ==
    \/ Tick
    \/ Distclean
    \/ ImportRemote
    \/ WgetOutput
    \/ WgetExit
    \/ WgetInterrupted
    \/ ImportLocate
    \/ ImportReturn

SpecFetch == Init /\ [][NextFetch]_vars

----------------------------------------------------------------------------
(* JSONStateFile objects of successive runs on one state file *)

NextState ==
    \/ JSONStateFile_init
    \/ JSONStateFile_enter
    \/ WithSet
    \/ JSONStateFile_exit
    \/ SaveOpen
    \/ SaveDump
    \/ SaveRename
    \/ ProcessStops

SpecState == Init /\ [][NextState]_vars

\* the same, with a state file that can be found cut short
NextDamaged ==
    \/ JSONStateFile_init
    \/ JSONStateFile_enter
    \/ WithSet
    \/ JSONStateFile_exit
    \/ SaveOpen
    \/ SaveDump
    \/ SaveRename
    \/ ProcessStops
    \/ StateFileTruncated

SpecDamaged == Init /\ [][NextDamaged]_vars

----------------------------------------------------------------------------
(* Stages that import and apply the patches of their configuration *)

NextPatch ==
    \/ TickPatch
    \/ WritePatch
    \/ UnlinkPatch
    \/ Patcher_init
    \/ import_patches
    \/ DistcleanPatches

SpecPatch == Init /\ [][NextPatch]_vars

\* the same stages on a fresh source tree, with patch files that stay
NextApply ==
    \/ WritePatch
    \/ Patcher_init
    \/ import_patches
    \/ Patcher_apply
    \/ ApplyStep
    \/ ApplyReturn

SpecApply == Init /\ [][NextApply]_vars

----------------------------------------------------------------------------
(* The stages of a builder with a bypass bundle, checked and run *)

NextBypass ==
    \/ WriteBundle
    \/ ChmodBundle
    \/ UnlinkBundle
    \/ SwitchSources
    \/ StageCheck
    \/ StageRun

SpecBypass == Init /\ [][NextBypass]_vars

----------------------------------------------------------------------------
(* The prepare stage of one builder, run after run on its workspace *)

NextPrepare ==
    \/ BaseBuilder_init
    \/ Builder_check
    \/ Builder_fetch
    \/ BaseBuilder_distclean
    \/ EditSources
    \/ UBootBuilder_prepare
    \/ RootfsBuilder_prepare
    \/ FSBLBuilder_prepare
    \/ DTBBuilder_prepare
    \/ KernelBuilder_prepare
    \/ PMUBuilder_prepare

SpecPrepare == Init /\ [][NextPrepare]_vars

----------------------------------------------------------------------------
(* Definitions the properties are stated with *)

\* sequence_stages has returned its sequence
SequenceReturned ==
    \/ pc \in {"check", "run"}
    \/ /\ pc = "exit"
       /\ \/ exit_code = 0
          \/ report[1] \in {"conditions not met", "failed"}

\* the stage table exists and the requires closure is complete
ClosureComplete ==
    \/ pc = "reorder"
    \/ SequenceReturned

\* the stages B of the final stage set with an edge `A after B`
Preds(A) == stageset[A].after \cap required_stages_set

RECURSIVE Ancestors(_, _)
\* the stages reached from F along `after` edges of the final stage set
Ancestors(F, n) ==
    IF n = 0 THEN F
    ELSE Ancestors(F \cup UNION {Preds(x) : x \in F}, n - 1)

\* no cycle in the `after` relation among the stages of the final stage set
AcyclicAfter ==
    \A A \in required_stages_set :
        A \notin Ancestors(Preds(A), Cardinality(required_stages_set))

\* B occurs in seq, and A occurs in it only later
Precedes(seq, B, A) ==
    \E i, j \in DOMAIN seq : seq[i] = B /\ seq[j] = A /\ i < j

RECURSIVE ClosureIn(_, _)
\* S with every declared stage reached from it along `requires`
ClosureIn(table, S) ==
    LET more == S \cup UNION {table[x].requires \cap DOMAIN table : x \in S}
    IN  IF more = S THEN S ELSE ClosureIn(table, more)

\* the least set of declared stages that contains S and the requires of its
\* members
RequiresClosure(S) ==
    LET table == ResolvedStageset
    IN  ClosureIn(table, S)

\* the requested selectors that the command line does not accept
Invalid == {stage \in ARGS_stages : stage \notin valid_stages}

\* <<X, S>> for every stage S of the closure of the request that requires a
\* stage X absent from the graph
MissingRequired ==
    IF Invalid # {} THEN {}
    ELSE LET table   == ResolvedStageset
             closure == ClosureIn(table, resolve_alls(all_keys, ARGS_stages))
         IN  UNION {{<<X, S>> : X \in table[S].requires \ DOMAIN table} :
                    S \in closure}

----------------------------------------------------------------------------
(* C1 *)

\* C1: when the `after` relation among the stages of the final stage set has
\* no cycle, the returned sequence places B before A for every edge
\* `A after B` whose two ends are in the final stage set.
THM_C1 ==
    (SequenceReturned /\ AcyclicAfter) =>
        \A A \in required_stages_set :
            \A B \in Preds(A) : Precedes(sequenced_stages, B, A)

\* a returned sequence in which an edge moved B in front of A although B is
\* declared after A
WIT_C1 ==
    /\ SequenceReturned
    /\ \E A \in required_stages_set :
       \E B \in Preds(A) :
          /\ Index(B) > Index(A)
          /\ Precedes(sequenced_stages, B, A)

----------------------------------------------------------------------------
(* C2 *)

----------------------------------------------------------------------------
(* C3 *)

----------------------------------------------------------------------------
(* C4 *)

\* some check invoked so far did not return true
CheckFailure == \E i \in DOMAIN checked : checked[i][2] # "true"

\* C4: a run is invoked only after every sequenced stage's check was invoked
\* and returned true; once a check has failed no run is ever invoked.
THM_C4 ==
    /\ started # <<>> =>
          /\ Len(checked) = Len(sequenced_stages)
          /\ \A i \in DOMAIN checked : checked[i] = <<sequenced_stages[i], "true">>
    /\ CheckFailure => (started = <<>> /\ pc \in {"check", "exit"})

\* the process ended after one stage's check failed and another's passed,
\* with no run invoked
WIT_C4 ==
    /\ pc = "exit"
    /\ started = <<>>
    /\ \E i, j \in DOMAIN checked :
          /\ checked[i][2] = "false"
          /\ checked[j][2] = "true"
          /\ STAGES[checked[j][1]].has_check
          /\ checked[i][1] \in Range(report[2])
          /\ checked[j][1] \notin Range(report[2])

----------------------------------------------------------------------------
(* C5 *)

\* the stages of the log entries that are failures, in order
Failures(log) ==
    LET failed == SelectSeq(log, LAMBDA entry : entry[2] # "true")
    IN  [i \in 1..Len(failed) |-> failed[i][1]]

\* check_conditions has returned
ChecksReturned ==
    \/ pc = "run"
    \/ /\ pc = "exit"
       /\ \/ exit_code = 0
          \/ report[1] \in {"conditions not met", "failed"}

\* C5: the checks are invoked in sequence order, each once, whatever the
\* earlier results; the failure list is the stages whose check returned
\* false or raised StepFailedError, in sequence order, and is what is
\* reported.
THM_C5 ==
    /\ Len(checked) <= Len(sequenced_stages)
    /\ \A i \in DOMAIN checked : checked[i][1] = sequenced_stages[i]
    /\ conditions_failed_for = Failures(checked)
    /\ ChecksReturned => Len(checked) = Len(sequenced_stages)
    /\ (pc = "exit" /\ exit_code = 1 /\ report[1] = "conditions not met") =>
          report[2] = Failures(checked)

\* a check was invoked after an earlier one had failed, and a later one
\* passed: the report lists the two failures and not the stage that passed
WIT_C5 ==
    /\ pc = "exit"
    /\ Len(checked) >= 3
    /\ checked[1][2] = "StepFailedError"
    /\ checked[2][2] = "true"
    /\ checked[3][2] = "false"
    /\ report = <<"conditions not met", <<checked[1][1], checked[3][1]>>>>

----------------------------------------------------------------------------
(* C6 *)

\* C6: the runs are invoked one at a time in sequence order; when the run at
\* position i fails, the process ends there: the stage at position i is the
\* one reported, no later stage was started and the i-1 stages before it
\* stay completed.
THM_C6 ==
    /\ Len(started) <= Len(sequenced_stages)
    /\ \A i \in DOMAIN started : started[i] = sequenced_stages[i]
    /\ IF Len(report) > 0 /\ report[1] = "failed"
       THEN /\ pc = "exit"
            /\ started # <<>>
            /\ report[2] = sequenced_stages[Len(started)]
            /\ completed = SubSeq(sequenced_stages, 1, Len(started) - 1)
       ELSE completed = started

\* stage 2 of 4 failed
WIT_C6 ==
    /\ pc = "exit"
    /\ Len(sequenced_stages) = 4
    /\ report = <<"failed", sequenced_stages[2]>>
    /\ started = SubSeq(sequenced_stages, 1, 2)
    /\ completed = SubSeq(sequenced_stages, 1, 1)

----------------------------------------------------------------------------
(* C7 *)

\* a requested or required stage reference does not exist, or the stage
\* table could not be built
ConfigError ==
    IF Invalid # {} THEN TRUE
    ELSE IF DanglingBefore(ResolvedStageset) # {} THEN TRUE
    ELSE MissingRequired # {}

\* a run was invoked and did not return
RunFailure == Len(started) > Len(completed)

\* C7: the exit code is 0 or 1; it is 0 exactly when there was no
\* configuration error, no check failure and no run failure and the run of
\* every stage of the sequence (the closure of the request) completed.
THM_C7 ==
    pc = "exit" =>
        /\ exit_code \in {0, 1}
        /\ exit_code = 0 <=>
              /\ ~CheckFailure
              /\ ~RunFailure
              /\ completed = sequenced_stages
              /\ ~ConfigError
              /\ Range(sequenced_stages) =
                    RequiresClosure(resolve_alls(all_keys, ARGS_stages))

\* the process ended with 0 after the runs of three stages
WIT_C7 ==
    /\ pc = "exit"
    /\ exit_code = 0
    /\ Len(completed) >= 3

----------------------------------------------------------------------------
(* C8 *)

----------------------------------------------------------------------------
(* C9 *)

\* what a selector stands for
SelectorMeaning(sel) ==
    IF sel[1] # ALL /\ sel[2] # ALL THEN {sel}
    ELSE IF sel[2] # ALL THEN {k \in DOMAIN STAGES : k[2] = sel[2]}
    ELSE IF sel[1] # ALL
         THEN {k \in DOMAIN STAGES : k[1] = sel[1] /\ STAGES[k].include_in_all}
    ELSE {k \in DOMAIN STAGES : STAGES[k].include_in_all}

\* C9: resolve_alls maps (b, s) to itself, (b, ALL) to the include_in_all
\* stages of b, (ALL, s) to the stage s of every builder that declares it and
\* (ALL, ALL) to every include_in_all stage, for the request and for the
\* requires of every stage, when sequence_stages resolves them; a wildcard
\* stage-half never selects a stage whose include_in_all is false.
THM_C9 ==
    /\ pc = "sequence_stages" =>
          \A sel \in Selectors :
              /\ resolve_alls(all_keys, {sel}) = SelectorMeaning(sel)
              /\ sel[2] = ALL =>
                    \A k \in resolve_alls(all_keys, {sel}) : STAGES[k].include_in_all
    /\ (pc = "closure" /\ required_stages_set = {}) =>
          /\ Range(requested_stages) =
                UNION {SelectorMeaning(sel) : sel \in ARGS_stages}
          /\ \A k \in DOMAIN stageset :
                stageset[k].requires =
                   UNION {SelectorMeaning(sel) : sel \in STAGES[k].requires}

\* ALL:clean was requested and resolved to the clean stage of both builders,
\* which are not part of ALL:ALL
WIT_C9 ==
    /\ pc = "closure"
    /\ required_stages_set = {}
    /\ ARGS_stages = {<<ALL, "clean">>}
    /\ Range(requested_stages) = {<<"kernel", "clean">>, <<"qspi", "clean">>}
    /\ \A k \in Range(requested_stages) : ~STAGES[k].include_in_all
    /\ \E k \in DOMAIN stageset :
          /\ STAGES[k].requires = {<<"qspi", ALL>>}
          /\ stageset[k].requires = {<<"qspi", "build">>}

----------------------------------------------------------------------------
(* C10 *)

\* the selector sets that resolve_alls is given
ResolvedSets ==
    {ARGS_stages}
    \cup {STAGES[k].requires : k \in DOMAIN STAGES}
    \cup {STAGES[k].before : k \in DOMAIN STAGES}
    \cup {STAGES[k].after : k \in DOMAIN STAGES}
    \cup {{sel} : sel \in Selectors}

\* C10: for the selector sets that sequence_stages is about to resolve, a
\* concrete pair resolves to the singleton of itself, and resolving the
\* result of a resolution changes nothing.
THM_C10 ==
    pc = "sequence_stages" =>
        /\ \A key \in Keys : resolve_alls(all_keys, {key}) = {key}
        /\ \A X \in ResolvedSets :
              resolve_alls(all_keys, resolve_alls(all_keys, X)) =
                 resolve_alls(all_keys, X)

\* a stage requires a wildcard and a concrete stage of a disabled builder,
\* and the request is a wildcard
WIT_C10 ==
    /\ pc = "sequence_stages"
    /\ "qspi" \notin {k[1] : k \in DOMAIN STAGES}
    /\ ARGS_stages = {<<ALL, ALL>>}
    /\ \E k \in DOMAIN STAGES :
          /\ STAGES[k].requires = {<<"kernel", ALL>>, <<"qspi", "build">>}
          /\ resolve_alls(all_keys, STAGES[k].requires) =
                {<<"kernel", "build">>, <<"qspi", "build">>}

----------------------------------------------------------------------------
(* C11 *)

\* C11: on the kernel builder's graph, a returned sequence that holds
\* kernel:build also holds kernel:olddefconfig, kernel:prepare and
\* kernel:fetch, in the relative order fetch, prepare, olddefconfig, build;
\* when kernel:build is the only selector requested the sequence is exactly
\* these four stages.
THM_C11 ==
    LET K(name) == <<"kernel", name>>
        seq     == sequenced_stages
    IN  SequenceReturned =>
           /\ K("build") \in Range(seq) =>
                 /\ Precedes(seq, K("olddefconfig"), K("build"))
                 /\ Precedes(seq, K("prepare"), K("olddefconfig"))
                 /\ Precedes(seq, K("fetch"), K("prepare"))
           /\ ARGS_stages = {K("build")} =>
                 seq = <<K("fetch"), K("prepare"), K("olddefconfig"), K("build")>>

\* sequence_stages returned for the request kernel:build alone on the kernel
\* builder's graph
WIT_C11 ==
    /\ SequenceReturned
    /\ DOMAIN STAGES = KernelKeys
    /\ ARGS_stages = {<<"kernel", "build">>}
    /\ Len(sequenced_stages) = 4

----------------------------------------------------------------------------
(* C12 *)

\* the stages that declare `before T`, wildcards resolved
BeforeOf(T) ==
    {S \in DOMAIN STAGES : T \in resolve_alls(all_keys, STAGES[S].before)}

\* the graph in which every `S before T` is declared as `T after S` instead
InverseGraph ==
    [T \in DOMAIN STAGES |->
        [STAGES[T] EXCEPT !.before = {}, !.after = @ \cup BeforeOf(T)]]

\* the stage table has just been normalised
Normalised == pc = "closure" /\ required_stages_set = {}

\* C12: the normalised stage table of a graph is the resolved table of the
\* graph that declares `T after S` for every `S before T` (the rest of the
\* sequencer reads nothing else of the declarations, so both graphs run it
\* from the same state for every request), every `before` set of it is
\* empty, and in a returned sequence of an acyclic graph S precedes T for
\* every `S before T` with both in the sequence.
THM_C12 ==
    /\ Normalised =>
          \A T \in DOMAIN stageset :
              /\ stageset[T].before = {}
              /\ stageset[T].after = resolve_alls(all_keys, InverseGraph[T].after)
              /\ stageset[T].requires =
                    resolve_alls(all_keys, InverseGraph[T].requires)
    /\ (SequenceReturned /\ AcyclicAfter) =>
          \A T \in Range(sequenced_stages) :
              \A S \in BeforeOf(T) \cap Range(sequenced_stages) :
                  Precedes(sequenced_stages, S, T)

\* a returned sequence in which `S before T` moved S in front of a stage T
\* that is declared earlier
WIT_C12 ==
    /\ SequenceReturned
    /\ \E T \in Range(sequenced_stages) :
       \E S \in BeforeOf(T) \cap Range(sequenced_stages) :
          /\ Index(S) > Index(T)
          /\ S \notin STAGES[T].after
          /\ Precedes(sequenced_stages, S, T)

----------------------------------------------------------------------------
(* C13 *)

RECURSIVE SequenceFrom(_, _)
\* the sequence the loop of main.py 287-308 builds from a working list when
\* every `after` set is iterated in declaration order
SequenceFrom(work, done) ==
    IF work = <<>> THEN done
    ELSE LET stage == Head(work)
             todo  == {after \in stageset[stage].after :
                          after \in Range(work) /\ after \notin Range(done)}
         IN  IF stage \in Range(done) THEN SequenceFrom(Tail(work), done)
             ELSE IF todo # {}
             THEN SequenceFrom(Reverse(InNaturalOrder(todo)) \o work, done)
             ELSE SequenceFrom(Tail(work), Append(done, stage))

\* C13: for a fixed graph and request the returned sequence is the same on
\* every run, whatever the iteration order of the `after` sets: every
\* returned sequence of an acyclic graph is the one sequence obtained with
\* the `after` sets iterated in declaration order.
CE_C13 ==
    (SequenceReturned /\ AcyclicAfter) =>
        sequenced_stages = SequenceFrom(InNaturalOrder(required_stages_set), <<>>)

----------------------------------------------------------------------------
(* C14 *)

\* C14: once the closure is complete, the sequencing loop ends (and
\* sequence_stages returns) whenever the `after` relation among the stages of
\* the final stage set has no cycle, and sequence_stages returns only then:
\* with a cycle, a stage `after` itself included, the loop never ends and
\* nothing is reported.
THM_C14 ==
    /\ (pc = "reorder" /\ AcyclicAfter) ~> (pc = "check")
    /\ [][(pc = "reorder" /\ ~AcyclicAfter) => (pc' = "reorder" /\ report' = <<>>)]_vars

\* sequence_stages returned although the declared `after` relation has a
\* cycle, which lies outside the final stage set
WIT_C14 ==
    /\ pc = "check"
    /\ AcyclicAfter
    /\ \E A, B \in DOMAIN stageset :
          /\ A # B
          /\ A \in stageset[B].after
          /\ B \in stageset[A].after
          /\ A \in required_stages_set
          /\ B \notin required_stages_set

----------------------------------------------------------------------------
(* C15 *)

\* C15: a call of import_source that finds its source decides `changed` by
\* the first of these that holds for the files it found: (a) there is no
\* target; (b) ignore_timestamps is not set and the target's mtime or ctime
\* is older than the source's or the sizes differ; (c) the digests differ.
\* When one holds it returns true and the target is a fresh copy of the
\* source; when none holds it returns false and no file has changed.
THM_C15 ==
    (ipc = "done" /\ pre[source_path].exists) =>
        LET sts == pre[source_path]
            stt == pre["target"]
            a   == ~stt.exists
            b   == /\ ~call.ignore_timestamps
                   /\ \/ stt.mtime < sts.mtime
                      \/ stt.ctime < sts.ctime
                      \/ st_size(stt) # st_size(sts)
            c   == sts.content # stt.content
        IN  /\ changed_at = IF a THEN "target.exists"
                            ELSE IF b THEN "timestamp"
                            ELSE IF c THEN "hash" ELSE "unchanged"
            /\ (a \/ b \/ c) =>
                  /\ returned = "true"
                  /\ fs = [pre EXCEPT !["target"] = NewFile(sts.content)]
            /\ ~(a \/ b \/ c) =>
                  /\ returned = "false"
                  /\ fs = pre

\* a call that honours the timestamps, finds a target that is not older and
\* has the size of the source, and imports it because the digests differ
WIT_C15 ==
    /\ ipc = "done"
    /\ pre["source"].exists
    /\ pre["target"].exists
    /\ ~call.ignore_timestamps
    /\ changed_at = "hash"
    /\ returned = "true"
    /\ fs["target"].content = pre["source"].content

----------------------------------------------------------------------------
(* C16 *)

\* the call that is returning came right after a call on the same, existing
\* source that found no target, with no file changed in between
SecondImport ==
    /\ ipc = "done"
    /\ call.scheme = "file"
    /\ last.call.scheme = "file"
    /\ last.pre["source"].exists
    /\ ~last.pre["target"].exists
    /\ pre = last.fs

\* C16: of two calls of import_source in a row on an unchanged source, the
\* first finding no target, the first returns true and the second returns
\* false and leaves the target, content and timestamps, as it found it.
THM_C16 ==
    SecondImport =>
        /\ last.result = "true"
        /\ returned = "false"
        /\ fs["target"] = pre["target"]

\* the second of two such calls, made at a later time than the first, on a
\* source written at the time of the first call
WIT_C16 ==
    /\ SecondImport
    /\ returned = "false"
    /\ pre["target"].mtime = pre["source"].mtime
    /\ pre["target"].mtime < clock
    /\ ~call.ignore_timestamps

----------------------------------------------------------------------------
(* C17 *)

----------------------------------------------------------------------------
(* C18 *)

\* C18: when the download of a remote source has failed and import_source
\* has raised StepFailedError, the build workspace holds no partially
\* written download file.
CE_C18 ==
    (ipc = "done" /\ call.scheme = "https" /\ returned = "StepFailedError") =>
        /\ ~fs["cachefile~"].exists
        /\ ~fs["cachefile"].exists

----------------------------------------------------------------------------
(* C19 *)

\* C19: wget runs only in a call that found no cache file; a call that found
\* the cache file leaves it and the download file as they were; the cache
\* file, whenever it exists, holds the complete content the URL serves; and
\* a call whose download failed or was interrupted ends without a cache file.
THM_C19 ==
    /\ ipc = "wget" => (~pre["cachefile"].exists /\ ~fs["cachefile"].exists)
    /\ (ipc \in {"locate", "done"} /\ pre["cachefile"].exists) =>
          /\ fs["cachefile"] = pre["cachefile"]
          /\ fs["cachefile~"] = pre["cachefile~"]
    /\ fs["cachefile"].exists => fs["cachefile"].content = RemoteContent
    /\ (ipc = "done" /\ returned \in {"StepFailedError", "KeyboardInterrupt"}) =>
          ~fs["cachefile"].exists

\* a download completed in a call that found the file an earlier, failed or
\* interrupted download had left
WIT_C19 ==
    /\ ipc = "locate"
    /\ call.scheme = "https"
    /\ last.result \in {"StepFailedError", "KeyboardInterrupt"}
    /\ ~pre["cachefile"].exists
    /\ pre["cachefile~"].exists
    /\ pre["cachefile~"].content \in PartialContents
    /\ fs["cachefile"].exists
    /\ ~fs["cachefile~"].exists

----------------------------------------------------------------------------
(* C20 *)

\* C20: when the last `with` block on a JSONStateFile assigned state[k] = v
\* last and its save completed, a JSONStateFile created on the path
\* afterwards holds k = v and, key by key, the whole map the block left.
THM_C20 ==
    (jlast.op = "load" /\ tx.set /\ tx.saved) =>
        LET state == objs[jlast.obj].state
        IN  /\ tx.k \in DOMAIN state
            /\ state[tx.k] = tx.v
            /\ state = tx.map

\* a new object read back a map of two keys, the flag True among them, while
\* another object of the process still holds a different map
WIT_C20 ==
    /\ jlast.op = "load"
    /\ tx.set
    /\ tx.saved
    /\ tx.v = <<"bool", "True">>
    /\ DOMAIN objs[jlast.obj].state = StateKeys
    /\ \E o \in Objects \ {jlast.obj} :
          objs[o].created /\ objs[o].state # tx.map

----------------------------------------------------------------------------
(* C21 *)

\* C21: a JSONStateFile created while the file at its path is missing or
\* cut short exists, holds the empty map, and no error was raised.
CE_C21 ==
    (/\ jlast.op \in {"load", "load failed"}
     /\ (~jfiles["path"].exists \/ ~jfiles["path"].complete))
        => (/\ jraised = "none"
            /\ objs[jlast.obj].created
            /\ objs[jlast.obj].state = EmptyMap)

----------------------------------------------------------------------------
(* C22 *)

\* C22: the file at the state path is never incomplete, and it changes only
\* in the rename that ends save, where it becomes the complete encoding of
\* the map being saved; an incomplete file exists only at the temporary path.
THM_C22 ==
    [][/\ jfiles'["path"].exists => jfiles'["path"].complete
       /\ jfiles'["path"] # jfiles["path"] =>
              /\ jpc = "rename"
              /\ jfiles'["path"] = [exists |-> TRUE, complete |-> TRUE,
                                    object |-> json_dump(objs[with_obj].state)]]_vars

\* the process stopped between opening the temporary file and the rename,
\* over a state file that an earlier save completed: the temporary file is
\* incomplete and the state file still holds a map with a key
WIT_C22 ==
    /\ jlast.op = "stopped"
    /\ jfiles["path~"].exists
    /\ ~jfiles["path~"].complete
    /\ jfiles["path"].exists
    /\ jfiles["path"].complete
    /\ DOMAIN jfiles["path"].object # {}

----------------------------------------------------------------------------
(* C23 *)

\* the files of the cache directory
Cached(files) == {n \in DOMAIN files : files[n].exists}

\* a step that is an import_patches call
ImportPatchesStep == ppc = "new" /\ ppc' # "new"

\* C23: when a stage imported [a, b] and the next run of the stage, with its
\* new Patcher on the same cache directory, imports [b], the call returns
\* true and no cached copy of a is left; when the next run imports [a, b]
\* again and no patch file was written or removed in between, the call
\* returns false, changes no cache file and leaves exactly 0000_a and 0001_b.
THM_C23 ==
    [][(/\ ImportPatchesStep
        /\ plast.returned \in {"true", "false"})
          => \A a \in PatchRefs : \A b \in PatchRefs \ {a} :
                plast.list = <<a, b>> =>
                   /\ (plast'.list = <<b>> /\ ppc' = "imported") =>
                          /\ plast'.returned = "true"
                          /\ \A n \in Cached(cache') : n[2] # a
                   /\ (plast'.list = <<a, b>> /\ ~plast.src_changed) =>
                          /\ ppc' = "imported"
                          /\ plast'.returned = "false"
                          /\ cache' = cache
                          /\ Cached(cache') = {<<<<0, 0, 0, 0>>, a>>,
                                               <<<<0, 0, 0, 1>>, b>>}]_vars

\* [A, B] was imported, then [B] by the next run: 0000_B is the only file
WIT_C23 ==
    /\ ppc = "imported"
    /\ plast.prev_list = <<"A", "B">>
    /\ plast.prev_ok
    /\ plast.list = <<"B">>
    /\ plast.returned = "true"
    /\ Cached(cache) = {<<<<0, 0, 0, 0>>, "B">>}

----------------------------------------------------------------------------
(* C24 *)

\* NNNN_<basename> for the entries of a list, NNNN the position from zero
ExpectedNames(list) == {<<<<0, 0, 0, i - 1>>, list[i]>> : i \in DOMAIN list}

\* entry i of the list has no cached copy yet
NewPatch(list, i) == ~cache[<<<<0, 0, 0, i - 1>>, list[i]>>].exists

\* entry i of the list has a cached copy, and the patch file differs from it
\* or was written after it
ModifiedPatch(list, i) ==
    LET copy == cache[<<<<0, 0, 0, i - 1>>, list[i]>>]
        file == psrc[list[i]]
    IN  /\ copy.exists
        /\ \/ file.content # copy.content
           \/ file.mtime > copy.mtime

\* C24: when an import_patches call returns, the cache directory holds
\* exactly the files NNNN_<basename> of the entries of its list, one per
\* entry, and the call returned true iff an entry was new or modified or a
\* cached file was removed.
THM_C24 ==
    [][(ImportPatchesStep /\ ppc' = "imported") =>
          LET list == plast'.list
          IN  /\ Cached(cache') = ExpectedNames(list)
              /\ Cardinality(Cached(cache')) = Len(list)
              /\ plast'.returned \in {"true", "false"}
              /\ plast'.returned = "true" <=>
                    \/ \E i \in DOMAIN list :
                          NewPatch(list, i) \/ ModifiedPatch(list, i)
                    \/ Cached(cache) \ ExpectedNames(list) # {}]_vars

\* a list that names one patch twice was imported again, unchanged
WIT_C24 ==
    /\ ppc = "imported"
    /\ plast.list = <<"A", "A">>
    /\ plast.prev_list = <<"A", "A">>
    /\ plast.returned = "false"
    /\ Cached(cache) = {<<<<0, 0, 0, 0>>, "A">>, <<<<0, 0, 0, 1>>, "A">>}

----------------------------------------------------------------------------
(* C25 *)

----------------------------------------------------------------------------
(* C26 *)

\* C26: a check() of a stage of the builder made while the bypass bundle
\* exists returned True, and the stage's check function was not invoked.
THM_C26 ==
    (blast.op = "check" /\ blast.bypassed) =>
        /\ blast.result = "true"
        /\ blast.own = "not invoked"

\* the check of build, which has a check function, under a bundle that was
\* extracted before
WIT_C26 ==
    /\ blast.op = "check"
    /\ blast.bypassed
    /\ blast.stage = "build"
    /\ blast.class = "BypassableStage"
    /\ blast.result = "true"
    /\ outdir = <<"extracted", "a">>

----------------------------------------------------------------------------
(* C27 *)

\* the last operation was the run of an extracting stage under a bundle
BypassedRun ==
    /\ blast.op = "run"
    /\ blast.bypassed
    /\ blast.class = "BypassableStage"
    /\ blast.extract_bypass

\* C27 as claimed: a run that returned skipped the extraction and changed
\* nothing when the canary was newer than the bundle, extracted otherwise,
\* and the second of two runs in a row did not extract.
CE_C27 ==
    (BypassedRun /\ blast.result = "returned") =>
        /\ blast.canary_newer => (~blast.extracted /\ ~blast.effect)
        /\ ~blast.canary_newer => blast.extracted
        /\ blast.again => ~blast.extracted

\* C27 as amended: a run that returned skipped the extraction and changed
\* nothing iff it found the canary and an up-to-date copy of the bundle in
\* the build workspace (same content, no older than the bundle in mtime and
\* ctime); otherwise it left the bundle's files in the output directory, the
\* canary touched and the copy up to date; the second of two runs in a row
\* did not extract.
THM_C27 ==
    (BypassedRun /\ blast.result = "returned") =>
        /\ blast.extracted <=> ~blast.fresh
        /\ blast.extracted =>
              /\ outdir = <<"extracted", bundle.content>>
              /\ canary.exists
              /\ canary.mtime = clock
              /\ bcopy.exists
              /\ bcopy.content = bundle.content
        /\ ~blast.extracted => ~blast.effect
        /\ blast.again => ~blast.extracted

\* the second run in a row, which skipped the extraction of bundle b
WIT_C27 ==
    /\ BypassedRun
    /\ blast.result = "returned"
    /\ blast.again
    /\ ~blast.extracted
    /\ outdir = <<"extracted", "b">>

----------------------------------------------------------------------------
(* C28 *)

\* C28: a run() of a stage made while the bypass bundle exists did not
\* invoke the stage's run function, and unless the stage is an extracting
\* one it changed nothing in the build workspace and the output directory.
CE_C28 ==
    (blast.op = "run" /\ blast.bypassed) =>
        /\ blast.own = "not invoked"
        /\ ~(blast.class = "BypassableStage" /\ blast.extract_bypass) =>
              ~blast.effect

----------------------------------------------------------------------------
(* C29 *)

\* C29: when the head of the working list has unsequenced `after`
\* predecessors in the working list, the loop step puts all of them in front
\* of the list in natural declaration order (stated for graphs whose `after`
\* relation has no cycle).
CE_C29 ==
    [][(/\ pc = "reorder"
        /\ AcyclicAfter
        /\ required_stages # <<>>
        /\ ~AlreadySequenced(Head(required_stages))
        /\ Unsequenced(Head(required_stages)) # {}
        /\ required_stages' # required_stages)
       => required_stages' =
             InNaturalOrder(Unsequenced(Head(required_stages))) \o required_stages]_vars

----------------------------------------------------------------------------
(* C30 *)

\* C30: a stage S of builder X declared `after X:ALL` is not a predecessor of
\* itself in the resolved stage table.
CE_C30 ==
    \A S \in DOMAIN stageset :
        <<S[1], ALL>> \in STAGES[S].after => S \notin stageset[S].after

----------------------------------------------------------------------------
(* C31 *)

\* the stages named by an `after` or `before` of a stage of the final stage
\* set, in the resolved declarations
Referenced ==
    UNION {ResolvedStageset[A].after \cup ResolvedStageset[A].before :
           A \in required_stages_set}

\* C31: a returned sequence holds no stage outside the closure of the request
\* under `requires`, whatever `after` and `before` name; when no `after` edge
\* joins two stages of the final stage set the sequence is the final stage
\* set in natural order, whatever unselected or absent stages the `after`
\* sets name; and every error raised while sequencing comes from an unknown
\* selector, an absent required stage or an absent `before`, never from an
\* `after`.
THM_C31 ==
    /\ SequenceReturned =>
          /\ Range(sequenced_stages) \cap Referenced
                \subseteq RequiresClosure(resolve_alls(all_keys, ARGS_stages))
          /\ (\A A \in required_stages_set : Preds(A) = {}) =>
                sequenced_stages = InNaturalOrder(required_stages_set)
    /\ (pc = "exit" /\ exit_code = 1 /\ checked = <<>>) =>
          \/ Invalid # {}
          \/ MissingRequired # {}
          \/ DanglingBefore(ResolvedStageset) # {}

\* a returned sequence with a stage whose `after` names a declared stage that
\* was not selected and a stage absent from the graph
WIT_C31 ==
    /\ SequenceReturned
    /\ \E A \in Range(sequenced_stages) :
          /\ \E B \in stageset[A].after :
                B \in DOMAIN stageset /\ B \notin Range(sequenced_stages)
          /\ \E C \in stageset[A].after : C \notin DOMAIN stageset

----------------------------------------------------------------------------
(* C34 *)

\* the natural order of the final stage set has B before A for every edge
\* `A after B` among its members
NaturalOrderSatisfies ==
    \A A \in required_stages_set : \A B \in Preds(A) : Index(B) < Index(A)

\* C34: when the natural order of the final stage set satisfies every `after`
\* constraint among its members, the returned sequence is the final stage
\* set in natural order.
THM_C34 ==
    (SequenceReturned /\ NaturalOrderSatisfies) =>
        sequenced_stages = InNaturalOrder(required_stages_set)

\* a returned sequence of three or more stages, two `after` edges among them,
\* both satisfied by the natural order
WIT_C34 ==
    /\ SequenceReturned
    /\ NaturalOrderSatisfies
    /\ Len(sequenced_stages) >= 3
    /\ \E A, B \in required_stages_set :
          /\ A # B
          /\ Preds(A) # {}
          /\ Preds(B) # {}

----------------------------------------------------------------------------
(* C32 *)

\* C32: unless the process stops, a `with` block is left only into save,
\* whether its body ended normally or raised; save changes neither the map
\* nor the exception that ended the body, which is the one the caller gets;
\* and the rename that ends save puts the complete encoding of the map, as
\* the body left it, at the state path.
THM_C32 ==
    [][/\ (jpc = "with" /\ jpc' # "with" /\ jlast'.op # "stopped") =>
             jpc' = "save"
       /\ (jpc \in {"save", "dump", "rename"} /\ jlast'.op # "stopped") =>
             /\ jraised' = jraised
             /\ objs' = objs
       /\ (jpc = "rename" /\ jlast'.op = "save") =>
             /\ jpc' = "idle"
             /\ jfiles'["path"] =
                   [exists |-> TRUE, complete |-> TRUE,
                    object |-> json_dump(objs[with_obj].state)]
             /\ ~jfiles'["path~"].exists]_vars

\* a block whose body assigned a key and then raised: its save completed,
\* the file holds the assignment and the exception is with the caller
WIT_C32 ==
    /\ jlast.op = "save"
    /\ jpc = "idle"
    /\ jraised = "StepFailedError"
    /\ tx.set /\ tx.saved
    /\ tx.k \in DOMAIN jfiles["path"].object
    /\ jfiles["path"].object[tx.k] = json_encode(tx.v)

----------------------------------------------------------------------------
(* C33 *)

\* the step is a run of prepare
PrepareStep == prun'.tick # prun.tick

\* the builders whose prepare guards patch application by one flag
FlagGuarded == {"u-boot", "rootfs", "fsbl"}

\* the run failed or stopped between the start of the extraction (or
\* generation) and the saving of the flag
BrokeInBetween(run) ==
    /\ run.ev.attempted
    /\ run.event \in {"extract", "apply", "stop_extract", "stop_apply"}

\* the run came to the test of the flag
ReachedGuard(run) ==
    run.event \notin {"bypassed", "xsa", "import", "stop_import", "stop_reset"}

\* C33: in u-boot, rootfs and fsbl, while the flag is true on disk the tree
\* is a complete extraction (or generation) with a whole patch list applied;
\* a run applies patches only after it extracted afresh; a run turns the
\* flag to true only when its extraction and its application succeeded; a
\* run that fails or stops in between leaves the flag not true; and a run
\* that finds the flag not true extracts.
THM_C33 ==
    /\ [](bld \in FlagGuarded /\ Truthy(bdisk.state, ReadyFlag(bld)) =>
             /\ bdisk.tree.exists
             /\ bdisk.tree.complete
             /\ bdisk.tree.patched \in PatchSets)
    /\ [][(PrepareStep /\ bld \in FlagGuarded) =>
             /\ prun'.ev.applied => prun'.ev.extracted
             /\ (/\ ~Truthy(bdisk.state, ReadyFlag(bld))
                 /\ Truthy(bdisk'.state, ReadyFlag(bld))) =>
                   /\ prun'.ev.extracted
                   /\ prun'.ev.applied
                   /\ bdisk'.tree.patched = bdisk'.patches
             /\ BrokeInBetween(prun') => ~Truthy(bdisk'.state, ReadyFlag(bld))
             /\ (/\ ~Truthy(StartState(bld), ReadyFlag(bld))
                 /\ ReachedGuard(prun')) => prun'.ev.attempted]_vars

\* a run that extracted afresh because the patches had changed and whose
\* patch failed: the tree is left partly patched and the flag not true
WIT_C33 ==
    /\ prun.builder \in FlagGuarded
    /\ prun.seen_ready
    /\ prun.ev.changed
    /\ prun.ev.extracted /\ prun.ev.applied
    /\ prun.event = "apply"
    /\ prun.ended = "raised"
    /\ bdisk.tree.patched = "partial"
    /\ bdisk.state[ReadyFlag(bld)] = PyFalse

----------------------------------------------------------------------------
(* C35 *)

\* the builders that import patches
PatchBuilders == {"fsbl", "dtb", "u-boot", "rootfs"}

\* C35: a run of prepare of fsbl, dtb, u-boot or rootfs in which
\* import_patches reported a change and which returned has extracted (or
\* generated) the tree afresh and applied the patches, and leaves the tree
\* patched with the list it imported.
CE_C35 ==
    [][(/\ PrepareStep
        /\ bld \in PatchBuilders
        /\ prun'.ev.changed
        /\ prun'.ended = "returned") =>
          /\ prun'.ev.extracted
          /\ prun'.ev.applied
          /\ bdisk'.tree.patched = bdisk'.patches]_vars

----------------------------------------------------------------------------
(* C36 *)

\* C36: a run of prepare of kernel, u-boot or rootfs that extracted a fresh
\* tree while the user has a configuration file, and that no failure from
\* outside and no stop cut short, leaves the user's configuration as the
\* tree's .config.
CE_C36 ==
    [][(/\ PrepareStep
        /\ bld \in {"kernel", "u-boot", "rootfs"}
        /\ prun'.ev.extracted
        /\ prun'.event = "none"
        /\ usr.config # "none") =>
          bdisk'.tree.config = usr.config]_vars

----------------------------------------------------------------------------
(* C37 *)

\* C37: a run of prepare of pmu or fsbl that follows distclean in the same
\* process, that found the workspace as distclean left it and that nothing
\* from outside cut short, has imported system.xsa and generated the
\* project.
CE_C37 ==
    [][(/\ PrepareStep
        /\ bld \in {"pmu", "fsbl"}
        /\ distcleaned
        /\ bdisk = EmptyWorkspace
        /\ prun'.event = "none") =>
          /\ bdisk'.xsa = usr.xsa
          /\ prun'.ev.extracted
          /\ bdisk'.tree.complete
          /\ Truthy(bdisk'.state, "project_generated")]_vars

----------------------------------------------------------------------------
(* C38 *)

\* C38: a call of import_source that found its source and returned a value
\* leaves a target whose content is the content of the source; and when the
\* value is false, the target the call found already had that content.
THM_C38 ==
    (/\ ipc = "done"
     /\ fs[source_path].exists
     /\ returned \in {"true", "false"}) =>
        /\ fs["target"].exists
        /\ fs["target"].content = fs[source_path].content
        /\ returned = "false" =>
              /\ pre["target"].exists
              /\ pre["target"].content = fs[source_path].content

\* a call that found a target newer than the source and of the same size
\* but with other content, and returns true with the content imported
WIT_C38 ==
    /\ ipc = "done"
    /\ call.scheme = "file"
    /\ pre["source"].exists
    /\ pre["target"].exists
    /\ pre["source"].mtime < pre["target"].mtime
    /\ pre["source"].ctime < pre["target"].ctime
    /\ st_size(pre["source"]) = st_size(pre["target"])
    /\ pre["source"].content # pre["target"].content
    /\ returned = "true"
    /\ fs["target"].content = fs["source"].content

----------------------------------------------------------------------------
(* C39 *)

\* C39: when the run of an extracting stage under a bundle has returned and
\* the canary exists, the output directory holds a completed extraction of
\* the bundle.
CE_C39 ==
    (BypassedRun /\ blast.result = "returned" /\ canary.exists) =>
        outdir = <<"extracted", bundle.content>>

====
